---- MODULE Spec2Model ----
(***************************************************************************)
(* Model of the configuration-synchronization and engine-lifecycle core of *)
(* remnawave-node-go: HashedSet, ConfigManager, Core, UserManager and the  *)
(* xray / handler controllers that drive them.                             *)
(*                                                                         *)
(* Strings that are only compared (tags, base-config hashes) are TLA+      *)
(* strings.  Strings that are hashed (member ids) are sequences of bytes.  *)
(* A uint32 is a pair <<hi, lo>> of 16-bit halves, because 32-bit values   *)
(* do not fit the model checker's integers.                                *)
(***************************************************************************)
EXTENDS Integers, Sequences, FiniteSets, TLC

VARIABLES
    \* ConfigManager (src/unnamed/part_006:51-58)
    emptyConfigHash,      \* string, "" = never started
    inboundsHashMap,      \* function: tag -> HashedSet
    xtlsConfigInbounds,   \* set of tags
    xrayConfig,           \* <<>> (nil) or <<config>>
    cmMu,                 \* m.mu: [writer: "" or a task, readers: set of tasks]
    \* the last ConfigManager API call of the sequential specifications
    call,
    \* Core (src/internal/xray/core.go:37-42)
    coreMu,               \* "" or the task holding c.mu for writing
    instance,             \* 0 (nil) or the id of the stored engine instance
    running,              \* c.running
    \* the embedded engine: every instance ever created, an instance's id is
    \* its index
    insts,                \* sequence of [status, ran, cfg, users]
    \* XrayController (src/unnamed/part_014:70-76)
    startMu,              \* "" or the task holding c.startMu
    isProcessing,         \* the atomic flag
    \* tasks (one goroutine per request)
    pc,                   \* task -> position
    req,                  \* task -> the call or request it is executing
    ret,                  \* task -> the result of its last call
    loc                   \* task -> local variables

cmVars == <<emptyConfigHash, inboundsHashMap, xtlsConfigInbounds, xrayConfig, cmMu>>
coreVars == <<coreMu, instance, running>>
engineVars == <<insts>>
ctlVars == <<startMu, isProcessing>>
taskVars == <<pc, req, ret, loc>>
vars == <<emptyConfigHash, inboundsHashMap, xtlsConfigInbounds, xrayConfig, cmMu, call,
          coreMu, instance, running, insts, startMu, isProcessing,
          pc, req, ret, loc>>

-----------------------------------------------------------------------------
(* Bounds and input domains *)

MaxSignalInbounds == 2
MaxConfigInbounds == 2
MaxInstances == 3

Tags == {"t1", "t2"}
U1 == <<117, 49>>            \* "u1"
U2 == <<117, 50>>            \* "u2"
EmptyId == <<>>              \* ""
MemberIds == {U1, U2}
EmptyConfigs == {"", "h1", "h2"}

SeqUpTo(S, n) == UNION {[1..k -> S] : k \in 0..n}

-----------------------------------------------------------------------------
(* 32-bit words as <<hi16, lo16>> *)

Half == 65536

RECURSIVE Xor16(_, _)
Xor16(a, b) ==
    IF a = 0 THEN b
    ELSE IF b = 0 THEN a
    ELSE (((a % 2) + (b % 2)) % 2) + (2 * Xor16(a \div 2, b \div 2))

XorW(a, b) == <<Xor16(a[1], b[1]), Xor16(a[2], b[2])>>

\* a + b mod 2^32
AddW(a, b) ==
    LET l == a[2] + b[2]
    IN  <<(a[1] + b[1] + (l \div Half)) % Half, l % Half>>

\* a << k mod 2^32, for 0 <= k <= 8
ShlW(a, k) ==
    LET l == a[2] * (2 ^ k)
    IN  <<(a[1] * (2 ^ k) + (l \div Half)) % Half, l % Half>>

\* a small non-negative int32 as a word
WordOf(n) == <<n \div Half, n % Half>>

-----------------------------------------------------------------------------
(* HashedSet (src/internal/xray/core.go:377-464) *)

SeedHigh == 5381
SeedLow == 5387

\* a loop whose high accumulator is multiplied by 32 instead of 33
RECURSIVE djb2LoopTimes32(_, _, _, _)
djb2LoopTimes32(str, i, h, l) ==
    IF i > Len(str) THEN [high |-> h, low |-> l]
    ELSE LET c == str[i]
         IN  djb2LoopTimes32(str, i + 1,
                             AddW(ShlW(h, 5), WordOf(c)),
                             AddW(AddW(ShlW(l, 6), l), WordOf(c * 37)))

RECURSIVE djb2Loop(_, _, _, _)
djb2Loop(str, i, h, l) ==
    IF i > Len(str) THEN [high |-> h, low |-> l]
    ELSE LET c == str[i]
         IN  djb2Loop(str, i + 1,
                      AddW(AddW(ShlW(h, 5), h), WordOf(c)),
                      AddW(AddW(ShlW(l, 6), l), WordOf(c * 37)))

djb2Dual(str) == djb2Loop(str, 1, WordOf(SeedHigh), WordOf(SeedLow))

NewHashedSet == [items |-> {}, hashHigh |-> <<0, 0>>, hashLow |-> <<0, 0>>]

\* an Add that does not look whether the element is there already
AddUnchecked(s, str) ==
    [items    |-> s.items \cup {str},
     hashHigh |-> XorW(s.hashHigh, djb2Dual(str).high),
     hashLow  |-> XorW(s.hashLow, djb2Dual(str).low)]

\* an Add that mixes the element in by shifting the accumulator first
AddShifted(s, str) ==
    IF str \notin s.items
    THEN LET d == djb2Dual(str)
         IN  [items    |-> s.items \cup {str},
              hashHigh |-> XorW(ShlW(s.hashHigh, 1), d.high),
              hashLow  |-> XorW(ShlW(s.hashLow, 1), d.low)]
    ELSE s

Add(s, str) ==
    IF str \notin s.items
    THEN LET d == djb2Dual(str)
         IN  [items    |-> s.items \cup {str},
              hashHigh |-> XorW(s.hashHigh, d.high),
              hashLow  |-> XorW(s.hashLow, d.low)]
    ELSE s

\* a Delete that takes the element out of the high word only
DeleteHighOnly(s, str) ==
    IF str \in s.items
    THEN [s EXCEPT !.items = @ \ {str}, !.hashHigh = XorW(@, djb2Dual(str).high)]
    ELSE s

\* a Delete without the membership test
DeleteUnchecked(s, str) ==
    LET d == djb2Dual(str)
    IN  [items    |-> s.items \ {str},
         hashHigh |-> XorW(s.hashHigh, d.high),
         hashLow  |-> XorW(s.hashLow, d.low)]

\* a Delete that forgets to take the element's hash out of the accumulator
DeleteKeepHash(s, str) == [s EXCEPT !.items = @ \ {str}]

Delete(s, str) ==
    IF str \in s.items
    THEN LET d == djb2Dual(str)
         IN  [items    |-> s.items \ {str},
              hashHigh |-> XorW(s.hashHigh, d.high),
              hashLow  |-> XorW(s.hashLow, d.low)]
    ELSE s

Size(s) == Cardinality(s.items)

\* Clear, core.go:444-448; a Clear that only replaces the map
ClearKeepHash(s) == [s EXCEPT !.items = {}]
Clear(s) == [items |-> {}, hashHigh |-> <<0, 0>>, hashLow |-> <<0, 0>>]

HexDigit == <<"0", "1", "2", "3", "4", "5", "6", "7",
              "8", "9", "a", "b", "c", "d", "e", "f">>

\* %04x of a 16-bit half
Hex4(n) ==
    HexDigit[(n \div 4096) + 1] \o HexDigit[((n \div 256) % 16) + 1]
        \o HexDigit[((n \div 16) % 16) + 1] \o HexDigit[(n % 16) + 1]

\* %08x of a uint32
Hex8(w) == Hex4(w[1]) \o Hex4(w[2])

Hash64String(s) == Hex8(s.hashHigh) \o Hex8(s.hashLow)

\* a set freshly built by adding the elements of a sequence in order
RECURSIVE AddAll(_, _, _)
AddAll(s, ids, i) ==
    IF i > Len(ids) THEN s ELSE AddAll(Add(s, ids[i]), ids, i + 1)

-----------------------------------------------------------------------------
(* ConfigManager (src/unnamed/part_006) *)

\* m.mu, a sync.RWMutex: one writer or any number of readers
Unlocked == [writer |-> "", readers |-> {}]

\* Hashes / InboundHash wire records
InboundHash(tag, hash) == [Tag |-> tag, Hash |-> hash, UsersCount |-> 0]

\* index of the first entry of inbounds whose Tag is tag, 0 when there is none
RECURSIVE FindIncoming(_, _, _)
FindIncoming(inbounds, tag, i) ==
    IF i > Len(inbounds) THEN 0
    ELSE IF inbounds[i].Tag = tag THEN i
    ELSE FindIncoming(inbounds, tag, i + 1)

\* the range loop without condition 4: a stored tag the signal lacks is passed over
RECURSIVE CheckStoredInboundsSkipMissing(_, _, _)
CheckStoredInboundsSkipMissing(hashMap, tags, incomingHashes) ==
    IF tags = {} THEN FALSE
    ELSE LET inboundTag == CHOOSE t \in tags : TRUE
             idx == FindIncoming(incomingHashes.Inbounds, inboundTag, 1)
         IN  IF idx # 0 /\ Hash64String(hashMap[inboundTag]) # incomingHashes.Inbounds[idx].Hash
             THEN TRUE
             ELSE CheckStoredInboundsSkipMissing(hashMap, tags \ {inboundTag}, incomingHashes)

\* the range loop over inboundsHashMap (conditions 4 and 5); Go's map order is
\* unspecified, the loop returns true as soon as one tag triggers
RECURSIVE CheckStoredInbounds(_, _, _)
CheckStoredInbounds(hashMap, tags, incomingHashes) ==
    IF tags = {} THEN FALSE
    ELSE LET inboundTag == CHOOSE t \in tags : TRUE
             idx == FindIncoming(incomingHashes.Inbounds, inboundTag, 1)
         IN  IF idx = 0 THEN TRUE
             ELSE IF Hash64String(hashMap[inboundTag]) # incomingHashes.Inbounds[idx].Hash
                  THEN TRUE
                  ELSE CheckStoredInbounds(hashMap, tags \ {inboundTag}, incomingHashes)

\* the restart decision without condition 3
IsNeedRestartCoreNoCount(incomingHashes) ==
    IF emptyConfigHash = "" THEN TRUE
    ELSE IF incomingHashes.EmptyConfig # emptyConfigHash THEN TRUE
    ELSE CheckStoredInbounds(inboundsHashMap, DOMAIN inboundsHashMap, incomingHashes)

IsNeedRestartCore(incomingHashes) ==
    IF emptyConfigHash = "" THEN TRUE
    ELSE IF incomingHashes.EmptyConfig # emptyConfigHash THEN TRUE
    ELSE IF Len(incomingHashes.Inbounds) # Cardinality(DOMAIN inboundsHashMap) THEN TRUE
    ELSE CheckStoredInbounds(inboundsHashMap, DOMAIN inboundsHashMap, incomingHashes)

\* the client loop without the test for an empty id
RECURSIVE ExtractClientsKeepEmptyId(_, _, _)
ExtractClientsKeepEmptyId(usersSet, clients, i) ==
    IF i > Len(clients) THEN usersSet
    ELSE ExtractClientsKeepEmptyId(Add(usersSet, clients[i].id), clients, i + 1)

\* the client loop of one inbound: ids that are "" are skipped
RECURSIVE ExtractClients(_, _, _)
ExtractClients(usersSet, clients, i) ==
    IF i > Len(clients) THEN usersSet
    ELSE IF clients[i].id # EmptyId
         THEN ExtractClients(Add(usersSet, clients[i].id), clients, i + 1)
         ELSE ExtractClients(usersSet, clients, i + 1)

\* the loop over the configuration's inbounds, from index i, on the maps built so far
RECURSIVE ExtractInbounds(_, _, _, _)
ExtractInbounds(inbounds, i, validTags, maps) ==
    IF i > Len(inbounds) THEN maps
    ELSE LET tag == inbounds[i].tag
         IN  IF tag = "" \/ tag \notin validTags
             THEN ExtractInbounds(inbounds, i + 1, validTags, maps)
             ELSE LET usersSet == ExtractClients(NewHashedSet, inbounds[i].clients, 1)
                      others == DOMAIN maps.hashMap \ {tag}
                  IN  ExtractInbounds(inbounds, i + 1, validTags,
                          [hashMap |-> [t \in others \cup {tag} |->
                                           IF t = tag THEN usersSet ELSE maps.hashMap[t]],
                           inbounds |-> maps.inbounds \cup {tag}])

ValidTags(hashes) == {hashes.Inbounds[i].Tag : i \in 1..Len(hashes.Inbounds)}

EmptyMaps == [hashMap |-> <<>>, inbounds |-> {}]

ExtractedMaps(hashes, newConfig) ==
    IF ~newConfig.hasInbounds THEN EmptyMaps
    ELSE ExtractInbounds(newConfig.inbounds, 1, ValidTags(hashes), EmptyMaps)

\* an extraction that installs the inbounds over the maps as they are
ExtractUsersFromConfigNoCleanup(hashes, newConfig) ==
    LET maps == IF ~newConfig.hasInbounds
                THEN [hashMap |-> inboundsHashMap, inbounds |-> xtlsConfigInbounds]
                ELSE ExtractInbounds(newConfig.inbounds, 1, ValidTags(hashes),
                         [hashMap |-> inboundsHashMap, inbounds |-> xtlsConfigInbounds])
    IN  /\ emptyConfigHash' = hashes.EmptyConfig
        /\ UNCHANGED cmMu
        /\ xrayConfig' = <<newConfig>>
        /\ inboundsHashMap' = maps.hashMap
        /\ xtlsConfigInbounds' = maps.inbounds

ExtractUsersFromConfig(hashes, newConfig) ==
    LET maps == ExtractedMaps(hashes, newConfig)
    IN  /\ emptyConfigHash' = hashes.EmptyConfig
        /\ UNCHANGED cmMu
        /\ xrayConfig' = <<newConfig>>
        /\ inboundsHashMap' = maps.hashMap
        /\ xtlsConfigInbounds' = maps.inbounds

\* SetXrayConfig, part_006:83-87; config is <<>> for nil
SetXrayConfig(config) ==
    /\ xrayConfig' = config
    /\ UNCHANGED <<emptyConfigHash, inboundsHashMap, xtlsConfigInbounds, cmMu>>

\* an AddUserToInbound that creates the entry of an untracked tag empty
AddUserToInboundCreateEmpty(inboundTag, userID) ==
    /\ inboundsHashMap' =
         IF inboundTag \notin DOMAIN inboundsHashMap
         THEN [t \in DOMAIN inboundsHashMap \cup {inboundTag} |->
                  IF t = inboundTag THEN NewHashedSet ELSE inboundsHashMap[t]]
         ELSE [inboundsHashMap EXCEPT ![inboundTag] = Add(@, userID)]
    /\ UNCHANGED <<emptyConfigHash, xtlsConfigInbounds, xrayConfig, cmMu>>

AddUserToInbound(inboundTag, userID) ==
    /\ inboundsHashMap' =
         IF inboundTag \notin DOMAIN inboundsHashMap
         THEN [t \in DOMAIN inboundsHashMap \cup {inboundTag} |->
                  IF t = inboundTag THEN Add(NewHashedSet, userID) ELSE inboundsHashMap[t]]
         ELSE [inboundsHashMap EXCEPT ![inboundTag] = Add(@, userID)]
    /\ UNCHANGED <<emptyConfigHash, xtlsConfigInbounds, xrayConfig, cmMu>>

\* the removal that keeps an inbound whose last user was removed
RemoveUserFromInboundKeepEmpty(inboundTag, userID) ==
    /\ IF inboundTag \notin DOMAIN inboundsHashMap
       THEN UNCHANGED <<inboundsHashMap, xtlsConfigInbounds>>
       ELSE /\ inboundsHashMap' =
                 [inboundsHashMap EXCEPT ![inboundTag] = Delete(@, userID)]
            /\ UNCHANGED xtlsConfigInbounds
    /\ UNCHANGED <<emptyConfigHash, xrayConfig, cmMu>>

\* the removal that drops the emptied inbound from inboundsHashMap only
RemoveUserFromInboundKeepTag(inboundTag, userID) ==
    /\ IF inboundTag \notin DOMAIN inboundsHashMap
       THEN UNCHANGED inboundsHashMap
       ELSE LET usersSet == Delete(inboundsHashMap[inboundTag], userID)
            IN  IF Size(usersSet) = 0
                THEN inboundsHashMap' =
                          [t \in DOMAIN inboundsHashMap \ {inboundTag} |-> inboundsHashMap[t]]
                ELSE inboundsHashMap' = [inboundsHashMap EXCEPT ![inboundTag] = usersSet]
    /\ UNCHANGED <<emptyConfigHash, xtlsConfigInbounds, xrayConfig, cmMu>>

\* the removal that drops the inbound whatever is left in its set
RemoveUserFromInboundDropAlways(inboundTag, userID) ==
    /\ IF inboundTag \notin DOMAIN inboundsHashMap
       THEN UNCHANGED <<inboundsHashMap, xtlsConfigInbounds>>
       ELSE /\ xtlsConfigInbounds' = xtlsConfigInbounds \ {inboundTag}
            /\ inboundsHashMap' =
                 [t \in DOMAIN inboundsHashMap \ {inboundTag} |-> inboundsHashMap[t]]
    /\ UNCHANGED <<emptyConfigHash, xrayConfig, cmMu>>

RemoveUserFromInbound(inboundTag, userID) ==
    /\ IF inboundTag \notin DOMAIN inboundsHashMap
       THEN UNCHANGED <<inboundsHashMap, xtlsConfigInbounds>>
       ELSE LET usersSet == Delete(inboundsHashMap[inboundTag], userID)
            IN  IF Size(usersSet) = 0
                THEN /\ xtlsConfigInbounds' = xtlsConfigInbounds \ {inboundTag}
                     /\ inboundsHashMap' =
                          [t \in DOMAIN inboundsHashMap \ {inboundTag} |-> inboundsHashMap[t]]
                ELSE /\ inboundsHashMap' = [inboundsHashMap EXCEPT ![inboundTag] = usersSet]
                     /\ UNCHANGED xtlsConfigInbounds
    /\ UNCHANGED <<emptyConfigHash, xrayConfig, cmMu>>

GetXtlsConfigInbounds == xtlsConfigInbounds

GetInboundHash(inboundTag) ==
    IF inboundTag \in DOMAIN inboundsHashMap
    THEN Hash64String(inboundsHashMap[inboundTag])
    ELSE ""

\* a cleanup that keeps the base fingerprint
cleanupKeepEmptyConfigHash ==
    /\ inboundsHashMap' = <<>>
    /\ xtlsConfigInbounds' = {}
    /\ xrayConfig' = <<>>
    /\ UNCHANGED cmMu
    /\ UNCHANGED emptyConfigHash

cleanup ==
    /\ inboundsHashMap' = <<>>
    /\ xtlsConfigInbounds' = {}
    /\ xrayConfig' = <<>>
    /\ UNCHANGED cmMu
    /\ emptyConfigHash' = ""

Cleanup == cleanup

-----------------------------------------------------------------------------
(* Inputs of the sequential ConfigManager specification *)

FingerprintOf(ids) == Hash64String(AddAll(NewHashedSet, ids, 1))

SignalHashes == {FingerprintOf(<<>>), FingerprintOf(<<U1>>)}

SignalInbounds == {InboundHash(t, h) : t \in Tags, h \in SignalHashes}

\* every signal of at most MaxSignalInbounds entries (tags may repeat)
Signals ==
    {[EmptyConfig |-> e, Inbounds |-> ibs] :
        e \in EmptyConfigs, ibs \in SeqUpTo(SignalInbounds, MaxSignalInbounds)}

\* one client of an inbound: the id the mirror hashes, the email the engine knows
Client(id, email) == [id |-> id, email |-> email]
Alice == Client(U1, "alice")
Bob == Client(U2, "bob")
Ghost == Client(EmptyId, "ghost")

ConfigInbound(t, c) == [tag |-> t, protocol |-> "vless", clients |-> c]

NoInboundsConfig == [hasInbounds |-> FALSE, inbounds |-> <<>>]

\* client lists: none; one id repeated around an empty id
ClientLists == {<<>>, <<Alice, Ghost, Alice>>}

ConfigInbounds ==
    {ConfigInbound(t, c) : t \in Tags, c \in ClientLists}
        \cup {ConfigInbound("", <<Alice>>)}

\* every configuration of at most MaxConfigInbounds inbounds (tags may repeat, an
\* inbound may be untagged), and the one without a usable "inbounds" array
Configs ==
    {NoInboundsConfig}
        \cup {[hasInbounds |-> TRUE, inbounds |-> ibs] :
                 ibs \in SeqUpTo(ConfigInbounds, MaxConfigInbounds)}

\* the pushes of the sequential specification
PushSignals ==
    {[EmptyConfig |-> e, Inbounds |-> ibs] :
        e \in {"", "h1"},
        ibs \in {<<>>,
                 <<InboundHash("t1", FingerprintOf(<<>>))>>,
                 <<InboundHash("t1", FingerprintOf(<<U1>>)),
                   InboundHash("t2", FingerprintOf(<<>>))>>}}

PushConfigs ==
    {NoInboundsConfig,
     [hasInbounds |-> TRUE, inbounds |-> <<ConfigInbound("t1", <<>>)>>],
     [hasInbounds |-> TRUE,
      inbounds |-> <<ConfigInbound("", <<Alice>>), ConfigInbound("t1", <<Alice, Bob>>)>>],
     [hasInbounds |-> TRUE,
      inbounds |-> <<ConfigInbound("t1", <<Alice, Ghost, Alice>>), ConfigInbound("t2", <<>>)>>],
     [hasInbounds |-> TRUE,
      inbounds |-> <<ConfigInbound("t2", <<Alice>>), ConfigInbound("t2", <<>>)>>]}

-----------------------------------------------------------------------------
(* The sequential specification: ConfigManager's API called in any order *)

\* NewConfigManager
InitConfigManager ==
    /\ cmMu = Unlocked
    /\ emptyConfigHash = ""
    /\ inboundsHashMap = <<>>
    /\ xtlsConfigInbounds = {}
    /\ xrayConfig = <<>>

\* NewCore, and no engine instance created yet
InitCore ==
    /\ coreMu = ""
    /\ instance = 0
    /\ running = FALSE
    /\ insts = <<>>

\* NewXrayController
InitController ==
    /\ startMu = ""
    /\ isProcessing = FALSE

NoTasks ==
    /\ pc = <<>>
    /\ req = <<>>
    /\ ret = <<>>
    /\ loc = <<>>

Init ==
    /\ InitConfigManager
    /\ InitCore
    /\ InitController
    /\ NoTasks
    /\ call = [op |-> "NewConfigManager"]

\* userID is the one member tracked for inboundTag
IsLastMember(inboundTag, userID) ==
    /\ inboundTag \in DOMAIN inboundsHashMap
    /\ inboundsHashMap[inboundTag].items = {userID}

CallExtractUsersFromConfig ==
    \E hashes \in PushSignals, newConfig \in PushConfigs :
        /\ ExtractUsersFromConfig(hashes, newConfig)
        /\ call' = [op |-> "ExtractUsersFromConfig", hashes |-> hashes,
                    config |-> newConfig]
        /\ UNCHANGED <<coreVars, engineVars, ctlVars, taskVars>>

CallAddUserToInbound ==
    \E inboundTag \in Tags, userID \in MemberIds :
        /\ AddUserToInbound(inboundTag, userID)
        /\ call' = [op |-> "AddUserToInbound", tag |-> inboundTag, id |-> userID]
        /\ UNCHANGED <<coreVars, engineVars, ctlVars, taskVars>>

CallRemoveUserFromInbound ==
    \E inboundTag \in Tags, userID \in MemberIds :
        /\ RemoveUserFromInbound(inboundTag, userID)
        /\ call' = [op |-> "RemoveUserFromInbound", tag |-> inboundTag, id |-> userID,
                    last |-> IsLastMember(inboundTag, userID),
                    member |-> /\ inboundTag \in DOMAIN inboundsHashMap
                               /\ userID \in inboundsHashMap[inboundTag].items]
        /\ UNCHANGED <<coreVars, engineVars, ctlVars, taskVars>>

CallCleanup ==
    /\ Cleanup
    /\ call' = [op |-> "Cleanup"]
    /\ UNCHANGED <<coreVars, engineVars, ctlVars, taskVars>>

\* the configurations a caller hands to SetXrayConfig: nil, and two of the
\* configurations of the pushes
SetConfigs == {<<>>, <<NoInboundsConfig>>,
               <<[hasInbounds |-> TRUE, inbounds |-> <<ConfigInbound("t1", <<>>)>>]>>}

CallSetXrayConfig ==
    \E config \in SetConfigs :
        /\ SetXrayConfig(config)
        /\ call' = [op |-> "SetXrayConfig", config |-> config]
        /\ UNCHANGED <<coreVars, engineVars, ctlVars, taskVars>>

Next ==
    \/ CallExtractUsersFromConfig
    \/ CallSetXrayConfig
    \/ CallAddUserToInbound
    \/ CallRemoveUserFromInbound
    \/ CallCleanup

Spec == Init /\ [][Next]_vars

-----------------------------------------------------------------------------
(* ExtractUsersFromConfig as a function of its inputs: a new ConfigManager,    *)
(* at most one AddUserToInbound, then one ExtractUsersFromConfig on any signal   *)
(* and any configuration                                                       *)

SeedAddUserToInbound ==
    /\ call.op = "NewConfigManager"
    /\ CallAddUserToInbound

ExtractAnyPush ==
    /\ call.op # "ExtractUsersFromConfig"
    /\ \E hashes \in Signals, newConfig \in Configs :
           /\ ExtractUsersFromConfig(hashes, newConfig)
           /\ call' = [op |-> "ExtractUsersFromConfig", hashes |-> hashes,
                    config |-> newConfig]
           /\ UNCHANGED <<coreVars, engineVars, ctlVars, taskVars>>

NextExtract ==
    \/ SeedAddUserToInbound
    \/ ExtractAnyPush

SpecExtract == Init /\ [][NextExtract]_vars
-----------------------------------------------------------------------------
(* ConfigManager under concurrent callers: one task calling IsNeedRestartCore  *)
(* and one calling the mutating methods, one step per statement, both going    *)
(* through m.mu (part_006:98-100, 165-166, 241-242, 261-262, 308-309)          *)

MirrorReaders == {"r1"}
MirrorWriters == {"w1"}
MirrorTasks == MirrorReaders \cup MirrorWriters

\* the pushes of the writer: signals that list one or two inbounds, with
\* configurations that have them
MirrorPushSignals == {h \in PushSignals : h.EmptyConfig # "" /\ Len(h.Inbounds) > 0}
MirrorPushConfigs ==
    {c \in PushConfigs :
        c.hasInbounds /\ \E i \in 1..Len(c.inbounds) : c.inbounds[i].tag = "t1"}

MirrorWrites ==
    {[op |-> "ExtractUsersFromConfig", hashes |-> h, config |-> c] :
        h \in MirrorPushSignals, c \in MirrorPushConfigs}
      \cup {[op |-> o, tag |-> t, id |-> id] :
              o \in {"AddUserToInbound", "RemoveUserFromInbound"},
              t \in Tags, id \in MemberIds}
      \cup {[op |-> "Cleanup"]}
      \cup {[op |-> "SetXrayConfig", config |-> <<NoInboundsConfig>>]}

NoMirrorLocals == [allowed |-> {}, todo |-> {}, i |-> 0]

InitMirror ==
    /\ InitConfigManager
    /\ InitCore
    /\ InitController
    /\ call = [op |-> "NewConfigManager"]
    /\ pc = [p \in MirrorTasks |-> "idle"]
    /\ req = [p \in MirrorTasks |-> [op |-> "none"]]
    /\ ret = [p \in MirrorTasks |-> FALSE]
    /\ loc = [p \in MirrorTasks |-> NoMirrorLocals]

\* sync.RWMutex: RLock waits for the writer, Lock for the writer and the
\* readers; a read lock that never waits
RLockableAlways(mu) == TRUE
RLockable(mu) == mu.writer = ""
Lockable(mu) == mu.writer = "" /\ mu.readers = {}

\* a caller enters IsNeedRestartCore(hashes); loc.allowed collects what the
\* call may return: the decision on the mirror as it is whenever no writer is
\* inside a method, from now until the call returns
MirrorCallIsNeedRestartCore(p) ==
    /\ pc[p] = "idle"
    /\ \E hashes \in PushSignals :
           /\ req' = [req EXCEPT ![p] = [op |-> "IsNeedRestartCore", hashes |-> hashes]]
           /\ loc' = [loc EXCEPT ![p] =
                        [NoMirrorLocals EXCEPT !.allowed =
                            IF cmMu.writer = "" THEN {IsNeedRestartCore(hashes)} ELSE {}]]
    /\ pc' = [pc EXCEPT ![p] = "RLock"]
    /\ UNCHANGED <<cmVars, call, coreVars, engineVars, ctlVars, ret>>

\* m.mu.RLock(), part_006:99
MirrorRLock(p) ==
    /\ pc[p] = "RLock"
    /\ RLockable(cmMu)
    /\ cmMu' = [cmMu EXCEPT !.readers = @ \cup {p}]
    /\ pc' = [pc EXCEPT ![p] = "conditions 1-2"]
    /\ UNCHANGED <<emptyConfigHash, inboundsHashMap, xtlsConfigInbounds, xrayConfig,
                   call, coreVars, engineVars, ctlVars, req, ret, loc>>

\* part_006:102-113
MirrorConditions12(p) ==
    /\ pc[p] = "conditions 1-2"
    /\ IF emptyConfigHash = "" \/ req[p].hashes.EmptyConfig # emptyConfigHash
       THEN /\ ret' = [ret EXCEPT ![p] = TRUE]
            /\ pc' = [pc EXCEPT ![p] = "RUnlock"]
       ELSE /\ ret' = ret
            /\ pc' = [pc EXCEPT ![p] = "condition 3"]
    /\ UNCHANGED <<cmVars, call, coreVars, engineVars, ctlVars, req, loc>>

\* part_006:115-121, and the start of the range loop at 124
MirrorCondition3(p) ==
    /\ pc[p] = "condition 3"
    /\ IF Len(req[p].hashes.Inbounds) # Cardinality(DOMAIN inboundsHashMap)
       THEN /\ ret' = [ret EXCEPT ![p] = TRUE]
            /\ pc' = [pc EXCEPT ![p] = "RUnlock"]
            /\ loc' = loc
       ELSE /\ ret' = ret
            /\ pc' = [pc EXCEPT ![p] = "conditions 4-5"]
            /\ loc' = [loc EXCEPT ![p].todo = DOMAIN inboundsHashMap]
    /\ UNCHANGED <<cmVars, call, coreVars, engineVars, ctlVars, req>>

\* one iteration of the range loop, part_006:124-153, in any order of the
\* keys; a key deleted meanwhile is not visited; the return at 159
MirrorConditions45(p) ==
    /\ pc[p] = "conditions 4-5"
    /\ IF loc[p].todo \cap DOMAIN inboundsHashMap = {}
       THEN /\ ret' = [ret EXCEPT ![p] = FALSE]
            /\ pc' = [pc EXCEPT ![p] = "RUnlock"]
            /\ loc' = [loc EXCEPT ![p].todo = {}]
       ELSE \E inboundTag \in loc[p].todo \cap DOMAIN inboundsHashMap :
              IF CheckStoredInbounds(inboundsHashMap, {inboundTag}, req[p].hashes)
              THEN /\ ret' = [ret EXCEPT ![p] = TRUE]
                   /\ pc' = [pc EXCEPT ![p] = "RUnlock"]
                   /\ loc' = [loc EXCEPT ![p].todo = {}]
              ELSE /\ ret' = ret
                   /\ pc' = pc
                   /\ loc' = [loc EXCEPT ![p].todo = @ \ {inboundTag}]
    /\ UNCHANGED <<cmVars, call, coreVars, engineVars, ctlVars, req>>

\* the deferred m.mu.RUnlock(), part_006:100, and the return
MirrorRUnlock(p) ==
    /\ pc[p] = "RUnlock"
    /\ cmMu' = [cmMu EXCEPT !.readers = @ \ {p}]
    /\ pc' = [pc EXCEPT ![p] = "idle"]
    /\ req' = [req EXCEPT ![p] = [op |-> "none"]]
    /\ loc' = [loc EXCEPT ![p] = NoMirrorLocals]
    /\ UNCHANGED <<emptyConfigHash, inboundsHashMap, xtlsConfigInbounds, xrayConfig,
                   call, coreVars, engineVars, ctlVars, ret>>

\* a caller enters one of the mutating methods
MirrorCallWrite(p) ==
    /\ pc[p] = "idle"
    /\ \E w \in MirrorWrites : req' = [req EXCEPT ![p] = w]
    /\ pc' = [pc EXCEPT ![p] = "Lock"]
    /\ UNCHANGED <<cmVars, call, coreVars, engineVars, ctlVars, ret, loc>>

\* m.mu.Lock(), part_006:84, 165, 241, 261, 308
MirrorLock(p) ==
    /\ pc[p] = "Lock"
    /\ Lockable(cmMu)
    /\ cmMu' = [cmMu EXCEPT !.writer = p]
    /\ pc' = [pc EXCEPT ![p] =
                 IF req[p].op = "ExtractUsersFromConfig" THEN "Extract.cleanup"
                 ELSE IF req[p].op = "RemoveUserFromInbound" THEN "Remove.Delete"
                 ELSE req[p].op]
    /\ UNCHANGED <<emptyConfigHash, inboundsHashMap, xtlsConfigInbounds, xrayConfig,
                   call, coreVars, engineVars, ctlVars, req, ret, loc>>

\* ExtractUsersFromConfig, part_006:169
MirrorExtractCleanup(p) ==
    /\ pc[p] = "Extract.cleanup"
    /\ cleanup
    /\ pc' = [pc EXCEPT ![p] = "Extract.store"]
    /\ UNCHANGED <<call, coreVars, engineVars, ctlVars, req, ret, loc>>

\* part_006:171-188
MirrorExtractStore(p) ==
    /\ pc[p] = "Extract.store"
    /\ emptyConfigHash' = req[p].hashes.EmptyConfig
    /\ xrayConfig' = <<req[p].config>>
    /\ IF req[p].config.hasInbounds /\ Len(req[p].config.inbounds) > 0
       THEN /\ pc' = [pc EXCEPT ![p] = "Extract.inbound"]
            /\ loc' = [loc EXCEPT ![p].i = 1]
       ELSE /\ pc' = [pc EXCEPT ![p] = "Unlock"]
            /\ loc' = loc
    /\ UNCHANGED <<inboundsHashMap, xtlsConfigInbounds, cmMu,
                   call, coreVars, engineVars, ctlVars, req, ret>>

\* one iteration of the loop over the configuration's inbounds, part_006:197-234
MirrorExtractInbound(p) ==
    /\ pc[p] = "Extract.inbound"
    /\ LET i == loc[p].i
           maps == ExtractInbounds(<<req[p].config.inbounds[i]>>, 1,
                                   ValidTags(req[p].hashes),
                                   [hashMap |-> inboundsHashMap,
                                    inbounds |-> xtlsConfigInbounds])
       IN  /\ inboundsHashMap' = maps.hashMap
           /\ xtlsConfigInbounds' = maps.inbounds
           /\ IF i < Len(req[p].config.inbounds)
              THEN /\ loc' = [loc EXCEPT ![p].i = i + 1]
                   /\ pc' = pc
              ELSE /\ loc' = [loc EXCEPT ![p].i = 0]
                   /\ pc' = [pc EXCEPT ![p] = "Unlock"]
    /\ UNCHANGED <<emptyConfigHash, xrayConfig, cmMu,
                   call, coreVars, engineVars, ctlVars, req, ret>>

\* AddUserToInbound, part_006:244-256
MirrorAddUserToInbound(p) ==
    /\ pc[p] = "AddUserToInbound"
    /\ AddUserToInbound(req[p].tag, req[p].id)
    /\ pc' = [pc EXCEPT ![p] = "Unlock"]
    /\ UNCHANGED <<call, coreVars, engineVars, ctlVars, req, ret, loc>>

\* RemoveUserFromInbound, part_006:264-269: usersSet.Delete(userID)
MirrorRemoveDelete(p) ==
    /\ pc[p] = "Remove.Delete"
    /\ IF req[p].tag \notin DOMAIN inboundsHashMap
       THEN /\ UNCHANGED inboundsHashMap
            /\ pc' = [pc EXCEPT ![p] = "Unlock"]
       ELSE /\ inboundsHashMap' = [inboundsHashMap EXCEPT ![req[p].tag] = Delete(@, req[p].id)]
            /\ pc' = [pc EXCEPT ![p] =
                         IF Size(Delete(inboundsHashMap[req[p].tag], req[p].id)) = 0
                         THEN "Remove.delete" ELSE "Unlock"]
    /\ UNCHANGED <<emptyConfigHash, xtlsConfigInbounds, xrayConfig, cmMu,
                   call, coreVars, engineVars, ctlVars, req, ret, loc>>

\* part_006:272-274: the emptied inbound is dropped from both maps
MirrorRemoveDeleteInbound(p) ==
    /\ pc[p] = "Remove.delete"
    /\ xtlsConfigInbounds' = xtlsConfigInbounds \ {req[p].tag}
    /\ inboundsHashMap' =
           [t \in DOMAIN inboundsHashMap \ {req[p].tag} |-> inboundsHashMap[t]]
    /\ pc' = [pc EXCEPT ![p] = "Unlock"]
    /\ UNCHANGED <<emptyConfigHash, xrayConfig, cmMu,
                   call, coreVars, engineVars, ctlVars, req, ret, loc>>

\* SetXrayConfig, part_006:86
MirrorSetXrayConfig(p) ==
    /\ pc[p] = "SetXrayConfig"
    /\ SetXrayConfig(req[p].config)
    /\ pc' = [pc EXCEPT ![p] = "Unlock"]
    /\ UNCHANGED <<call, coreVars, engineVars, ctlVars, req, ret, loc>>

\* Cleanup, part_006:310
MirrorCleanup(p) ==
    /\ pc[p] = "Cleanup"
    /\ Cleanup
    /\ pc' = [pc EXCEPT ![p] = "Unlock"]
    /\ UNCHANGED <<call, coreVars, engineVars, ctlVars, req, ret, loc>>

\* the deferred m.mu.Unlock(); the mirror is now what the method made of it,
\* which every IsNeedRestartCore call in progress may see
MirrorUnlock(p) ==
    /\ pc[p] = "Unlock"
    /\ cmMu' = [cmMu EXCEPT !.writer = ""]
    /\ pc' = [pc EXCEPT ![p] = "idle"]
    /\ req' = [req EXCEPT ![p] = [op |-> "none"]]
    /\ loc' = [q \in MirrorTasks |->
                 IF q \in MirrorReaders /\ pc[q] # "idle"
                 THEN [loc[q] EXCEPT !.allowed = @ \cup {IsNeedRestartCore(req[q].hashes)}]
                 ELSE loc[q]]
    /\ UNCHANGED <<emptyConfigHash, inboundsHashMap, xtlsConfigInbounds, xrayConfig,
                   call, coreVars, engineVars, ctlVars, ret>>

NextMirror ==
    \/ \E p \in MirrorReaders :
        \/ MirrorCallIsNeedRestartCore(p)
        \/ MirrorRLock(p)
        \/ MirrorConditions12(p)
        \/ MirrorCondition3(p)
        \/ MirrorConditions45(p)
        \/ MirrorRUnlock(p)
    \/ \E p \in MirrorWriters :
        \/ MirrorCallWrite(p)
        \/ MirrorLock(p)
        \/ MirrorExtractCleanup(p)
        \/ MirrorExtractStore(p)
        \/ MirrorExtractInbound(p)
        \/ MirrorAddUserToInbound(p)
        \/ MirrorRemoveDelete(p)
        \/ MirrorRemoveDeleteInbound(p)
        \/ MirrorSetXrayConfig(p)
        \/ MirrorCleanup(p)
        \/ MirrorUnlock(p)

SpecMirror == InitMirror /\ [][NextMirror]_vars

-----------------------------------------------------------------------------
(* HashedSet used directly: a caller holding one set                           *)

\* the strings the caller uses: "", "a", "b", "ab", "ba", "u1" and "abcdef"
\* (whose hashes no longer fit 32 bits without wrapping)
HashedStrings == {<<>>, <<97>>, <<98>>, <<97, 98>>, <<98, 97>>, U1,
                  <<97, 98, 99, 100, 101, 102>>}

\* the caller's locals: the set, and the members it holds by the calls made
\* so far (Add puts one in, Delete takes one out, Clear takes all out)
\* what the caller notes of a call: the operation and its argument, what
\* Hash64String(), Size() and Has(str) returned right before it, and the same
\* of the call before
Called(op, str) ==
    [op |-> op, str |-> str,
     before |-> [hash |-> Hash64String(loc.s), size |-> Size(loc.s),
                 has |-> str \in loc.s.items],
     prev |-> [op |-> call.op, str |-> call.str, before |-> call.before]]

InitHashedSet ==
    /\ InitConfigManager
    /\ InitCore
    /\ InitController
    /\ call = [op |-> "NewHashedSet", str |-> <<>>,
               before |-> [hash |-> "", size |-> 0, has |-> FALSE]]
    /\ pc = <<>>
    /\ req = <<>>
    /\ ret = <<>>
    /\ loc = [s |-> NewHashedSet, members |-> {}]

CallAdd ==
    \E str \in HashedStrings :
        /\ loc' = [s |-> Add(loc.s, str), members |-> loc.members \cup {str}]
        /\ call' = Called("Add", str)
        /\ UNCHANGED <<cmVars, coreVars, engineVars, ctlVars, pc, req, ret>>

CallDelete ==
    \E str \in HashedStrings :
        /\ loc' = [s |-> Delete(loc.s, str), members |-> loc.members \ {str}]
        /\ call' = Called("Delete", str)
        /\ UNCHANGED <<cmVars, coreVars, engineVars, ctlVars, pc, req, ret>>

CallClear ==
    /\ loc' = [s |-> Clear(loc.s), members |-> {}]
    /\ call' = Called("Clear", <<>>)
    /\ UNCHANGED <<cmVars, coreVars, engineVars, ctlVars, pc, req, ret>>

NextHashedSet ==
    \/ CallAdd
    \/ CallDelete
    \/ CallClear

SpecHashedSet == InitHashedSet /\ [][NextHashedSet]_vars

(* Add applied to an empty set along a sequence of strings, in any order of    *)
(* the sequence's positions                                                    *)

MaxAdds == 3

InitAddOrder ==
    /\ InitConfigManager
    /\ InitCore
    /\ InitController
    /\ \E ids \in SeqUpTo(HashedStrings, MaxAdds) : call = [op |-> "Adds", ids |-> ids]
    /\ pc = <<>>
    /\ req = <<>>
    /\ ret = <<>>
    /\ loc = [s |-> NewHashedSet, todo |-> DOMAIN call.ids]

AddInSomeOrder ==
    \E i \in loc.todo :
        /\ loc' = [s |-> Add(loc.s, call.ids[i]), todo |-> loc.todo \ {i}]
        /\ UNCHANGED <<cmVars, call, coreVars, engineVars, ctlVars, pc, req, ret>>

NextAddOrder == AddInSomeOrder

SpecAddOrder == InitAddOrder /\ [][NextAddOrder]_vars

(* djb2Dual one loop iteration at a time, and the Add and Delete that use its  *)
(* result                                                                      *)

MaxHashLen == 5
HashBytes == {0, 116, 255}
Test == <<116, 101, 115, 116>>                                \* "test"
Different == <<100, 105, 102, 102, 101, 114, 101, 110, 116>>  \* "different"
HashInputs == SeqUpTo(HashBytes, MaxHashLen) \cup {Test, Different}
\* the sets a caller can hold when it adds a string
HashInputSets == {NewHashedSet, Add(NewHashedSet, U1), Add(NewHashedSet, Test)}

\* a * k + c mod 2^32 for 0 <= k <= 65 and 0 <= c < 2^15, by long multiplication
\* on the two halves
MulAddW(a, k, c) ==
    LET lo == (a[2] * k) + c
    IN  <<((a[1] * k) + (lo \div Half)) % Half, lo % Half>>
\* whether a * k + c reaches 2^32
Wraps(a, k, c) == (a[1] * k) + (((a[2] * k) + c) \div Half) >= Half
\* the word as a number, where it is below 2^24
IntOf(a) == (a[1] * Half) + a[2]
Small(a) == a[1] < 256

InitDjb2 ==
    /\ InitConfigManager
    /\ InitCore
    /\ InitController
    /\ \E str \in HashInputs, s \in HashInputSets :
           call = [op |-> "djb2Dual", str |-> str, s |-> s]
    /\ pc = "loop"
    /\ req = <<>>
    /\ ret = <<>>
    /\ loc = [i |-> 1, h |-> WordOf(SeedHigh), l |-> WordOf(SeedLow),
              s |-> call.s, wrapped |-> FALSE]

\* one iteration of the loop of djb2Dual
Djb2Iterate ==
    /\ pc = "loop" /\ loc.i <= Len(call.str)
    /\ LET c == call.str[loc.i]
           d == djb2Loop(<<c>>, 1, loc.h, loc.l)
       IN  loc' = [loc EXCEPT !.i = @ + 1, !.h = d.high, !.l = d.low,
                              !.wrapped = @ \/ Wraps(loc.h, 33, c) \/ Wraps(loc.l, 65, 37 * c)]
    /\ UNCHANGED <<cmVars, call, coreVars, engineVars, ctlVars, pc, req, ret>>

\* return uint32(h), uint32(l)
Djb2Return ==
    /\ pc = "loop" /\ loc.i > Len(call.str)
    /\ ret' = [high |-> loc.h, low |-> loc.l]
    /\ pc' = "returned"
    /\ UNCHANGED <<cmVars, call, coreVars, engineVars, ctlVars, req, loc>>

\* the caller adds the string to its set
Djb2Add ==
    /\ pc = "returned"
    /\ loc' = [loc EXCEPT !.s = Add(@, call.str)]
    /\ pc' = "added"
    /\ UNCHANGED <<cmVars, call, coreVars, engineVars, ctlVars, req, ret>>

\* and deletes it again
Djb2Delete ==
    /\ pc = "added"
    /\ loc' = [loc EXCEPT !.s = Delete(@, call.str)]
    /\ pc' = "deleted"
    /\ UNCHANGED <<cmVars, call, coreVars, engineVars, ctlVars, req, ret>>

NextDjb2 ==
    \/ Djb2Iterate
    \/ Djb2Return
    \/ Djb2Add
    \/ Djb2Delete

SpecDjb2 == InitDjb2 /\ [][NextDjb2]_vars

\* C40: the dual hash of s starts from high = 5381 and low = 5387 and for each
\* byte c of s, in order, high becomes (high * 33 + c) mod 2^32 and low becomes
\* (low * 65 + 37 * c) mod 2^32 (the plain numbers where nothing wraps); the
\* pair returned is these two words as unsigned 32-bit values, it is what Add
\* and Delete XOR into the accumulators of the set, and it depends on s alone:
\* it is djb2Dual(s) whatever set the caller holds.
C40_Djb2DualArithmetic ==
    /\ [](/\ (pc = "loop" /\ loc.i = 1) =>
                loc.h = <<0, 5381>> /\ loc.l = <<0, 5387>>
          /\ pc # "loop" =>
                /\ ret = djb2Dual(call.str)
                /\ \A w \in {ret.high, ret.low} :
                       w[1] \in 0..(Half - 1) /\ w[2] \in 0..(Half - 1)
                /\ \A c1 \in HashInputSets :
                       /\ call.str \notin c1.items =>
                              /\ Add(c1, call.str).hashHigh = XorW(c1.hashHigh, ret.high)
                              /\ Add(c1, call.str).hashLow = XorW(c1.hashLow, ret.low)
                       /\ call.str \in c1.items =>
                              /\ Delete(c1, call.str).hashHigh = XorW(c1.hashHigh, ret.high)
                              /\ Delete(c1, call.str).hashLow = XorW(c1.hashLow, ret.low)
          /\ pc = "added" /\ call.str \notin call.s.items =>
                /\ loc.s.hashHigh = XorW(call.s.hashHigh, ret.high)
                /\ loc.s.hashLow = XorW(call.s.hashLow, ret.low)
          /\ pc = "deleted" /\ call.str \notin call.s.items =>
                /\ loc.s.hashHigh = XorW(XorW(call.s.hashHigh, ret.high), ret.high)
                /\ loc.s.hashLow = XorW(XorW(call.s.hashLow, ret.low), ret.low)
          /\ pc = "deleted" /\ call.str \in call.s.items =>
                /\ loc.s.hashHigh = XorW(call.s.hashHigh, ret.high)
                /\ loc.s.hashLow = XorW(call.s.hashLow, ret.low))
    /\ [][Djb2Iterate =>
             LET c == call.str[loc.i]
             IN  /\ loc'.h = MulAddW(loc.h, 33, c)
                 /\ loc'.l = MulAddW(loc.l, 65, 37 * c)
                 /\ Small(loc.h) => loc'.h = WordOf((IntOf(loc.h) * 33) + c)
                 /\ Small(loc.l) => loc'.l = WordOf((IntOf(loc.l) * 65) + (37 * c))]_vars

\* "test" was hashed, the accumulators wrapped on the way, and the pair was
\* XORed into a set that held another member
C40_Witness ==
    /\ pc = "added" /\ call.str = Test /\ loc.wrapped
    /\ ret = [high |-> <<31902, 26725>>, low |-> <<43743, 55307>>]
    /\ call.s = Add(NewHashedSet, U1)
    /\ loc.s.hashHigh # ret.high

-----------------------------------------------------------------------------
(* Claims about ConfigManager *)

SignalTags(sig) == {sig.Inbounds[i].Tag : i \in 1..Len(sig.Inbounds)}

\* the five restart conditions, stated over the mirror and the signal
RestartConditions(sig) ==
    \/ emptyConfigHash = ""
    \/ sig.EmptyConfig # emptyConfigHash
    \/ Len(sig.Inbounds) # Cardinality(DOMAIN inboundsHashMap)
    \/ \E t \in DOMAIN inboundsHashMap : t \notin SignalTags(sig)
    \/ \E t \in DOMAIN inboundsHashMap :
          \E i \in 1..Len(sig.Inbounds) :
              /\ sig.Inbounds[i].Tag = t
              /\ sig.Inbounds[i].Hash # Hash64String(inboundsHashMap[t])

\* C1: IsNeedRestartCore(signal) is true exactly when one of the five restart
\* conditions holds of the mirror and the signal, and false otherwise
C1_RestartIffCondition ==
    \A sig \in Signals : IsNeedRestartCore(sig) = RestartConditions(sig)

\* a mirror with two tracked inbounds for which one signal needs no restart and
\* another needs one only because a per-inbound fingerprint differs
C1_Witness ==
    /\ call.op \in {"AddUserToInbound", "RemoveUserFromInbound"}
    /\ Cardinality(DOMAIN inboundsHashMap) = 2
    /\ \E s1 \in Signals : ~IsNeedRestartCore(s1)
    /\ \E s2 \in Signals :
          /\ IsNeedRestartCore(s2)
          /\ s2.EmptyConfig = emptyConfigHash
          /\ Len(s2.Inbounds) = 2
          /\ SignalTags(s2) = DOMAIN inboundsHashMap

\* the ids of a client list that are not ""
ClientIdSet(clients) == {clients[j].id : j \in 1..Len(clients)} \ {EmptyId}

\* XOR-fold of the dual hashes of a set of ids, as a HashedSet
RECURSIVE SetOf(_)
SetOf(ids) ==
    IF ids = {} THEN NewHashedSet
    ELSE LET m == CHOOSE x \in ids : TRUE IN Add(SetOf(ids \ {m}), m)

ConfigTagsOf(cfg) ==
    IF cfg.hasInbounds
    THEN {cfg.inbounds[i].tag : i \in 1..Len(cfg.inbounds)} \ {""}
    ELSE {}

\* the last inbound of cfg with the given tag
LastInbound(cfg, tag) ==
    LET idx == {i \in 1..Len(cfg.inbounds) : cfg.inbounds[i].tag = tag}
    IN  cfg.inbounds[CHOOSE i \in idx : \A j \in idx : j <= i]

\* the signal describes the configuration: a base hash, distinct tags that are all
\* inbounds of cfg, each with the fingerprint of that inbound's client ids
SignalDescribes(sig, cfg) ==
    /\ sig.EmptyConfig # ""
    /\ \A i, j \in 1..Len(sig.Inbounds) :
          sig.Inbounds[i].Tag = sig.Inbounds[j].Tag => i = j
    /\ \A i \in 1..Len(sig.Inbounds) :
          /\ sig.Inbounds[i].Tag \in ConfigTagsOf(cfg)
          /\ sig.Inbounds[i].Hash =
                Hash64String(SetOf(ClientIdSet(LastInbound(cfg, sig.Inbounds[i].Tag).clients)))

\* C2 as stated: after ExtractUsersFromConfig(signal, cfg), IsNeedRestartCore of
\* the same signal is false, for every signal and every configuration
C2_NoRestartAfterExtract ==
    call.op = "ExtractUsersFromConfig" => ~IsNeedRestartCore(call.hashes)

\* C2 amended: after ExtractUsersFromConfig(signal, cfg), IsNeedRestartCore of the
\* same signal is false exactly when the signal describes cfg (non-empty base
\* hash, distinct tags that are inbounds of cfg, fingerprints of their client ids)
C2_NoRestartIffSignalDescribesConfig ==
    call.op = "ExtractUsersFromConfig" =>
        (~IsNeedRestartCore(call.hashes) <=> SignalDescribes(call.hashes, xrayConfig[1]))

\* an extraction of two inbounds, one with a member, whose signal describes them
C2_Witness ==
    /\ call.op = "ExtractUsersFromConfig"
    /\ SignalDescribes(call.hashes, xrayConfig[1])
    /\ Len(call.hashes.Inbounds) = 2
    /\ \E t \in DOMAIN inboundsHashMap : Size(inboundsHashMap[t]) > 0
    /\ ~IsNeedRestartCore(call.hashes)

\* C3 as stated: the keys of inboundsHashMap are exactly xtlsConfigInbounds
C3_KeySetsEqual ==
    DOMAIN inboundsHashMap = xtlsConfigInbounds

\* C4 as stated: no tracked inbound has an empty member set
C4_NoEmptyEntry ==
    \A t \in DOMAIN inboundsHashMap : Size(inboundsHashMap[t]) >= 1

\* whether the tag is tracked with an empty member set
EmptyEntry(t) == t \in DOMAIN inboundsHashMap /\ Size(inboundsHashMap[t]) = 0

\* C4 amended: a tracked inbound has an empty member set only as installed by
\* ExtractUsersFromConfig from an inbound, of the configuration it was given,
\* without client ids, and it is listed among the tracked tags; no other
\* method creates an empty entry, and AddUserToInbound and
\* RemoveUserFromInbound leave no empty entry for their tag
C4_EmptyEntryOnlyFromExtract ==
    /\ [](\A t \in DOMAIN inboundsHashMap :
             EmptyEntry(t) =>
                 /\ t \in xtlsConfigInbounds
                 /\ ~(call.op \in {"AddUserToInbound", "RemoveUserFromInbound"}
                        /\ call.tag = t))
    /\ [][\A t \in Tags :
             EmptyEntry(t)' =>
                 IF call'.op = "ExtractUsersFromConfig"
                 THEN /\ t \in ConfigTagsOf(call'.config)
                      /\ ClientIdSet(LastInbound(call'.config, t).clients) = {}
                 ELSE EmptyEntry(t)]_vars

\* right after an extraction, one inbound tracked with no member beside one with a member
C4_Witness ==
    /\ call.op = "ExtractUsersFromConfig"
    /\ \E t \in DOMAIN inboundsHashMap : Size(inboundsHashMap[t]) = 0
    /\ \E t \in DOMAIN inboundsHashMap : Size(inboundsHashMap[t]) > 0

\* C15: ExtractUsersFromConfig is a wholesale rebuild: after
\* ExtractUsersFromConfig(signal, cfg) the mirror holds signal's base
\* fingerprint and cfg as live configuration, its tracked tags (the keys of
\* inboundsHashMap and GetXtlsConfigInbounds alike) are exactly the tags that
\* are both a tag of an inbound of cfg and a tag of signal.inbounds, and each
\* is mapped to a set built from nothing but that inbound's client ids; so
\* nothing of the previous contents survives and inbounds of cfg that the
\* signal does not list are not tracked.
C15_WholesaleRebuild ==
    call.op = "ExtractUsersFromConfig" =>
        /\ emptyConfigHash = call.hashes.EmptyConfig
        /\ xrayConfig = <<call.config>>
        /\ DOMAIN inboundsHashMap = ConfigTagsOf(call.config) \cap SignalTags(call.hashes)
        /\ GetXtlsConfigInbounds = DOMAIN inboundsHashMap
        /\ \A t \in DOMAIN inboundsHashMap :
               inboundsHashMap[t] = SetOf(ClientIdSet(LastInbound(call.config, t).clients))

\* an extraction of a configuration with two tagged inbounds of which the
\* signal lists one, which has a member
C15_Witness ==
    /\ call.op = "ExtractUsersFromConfig"
    /\ ConfigTagsOf(call.config) = {"t1", "t2"}
    /\ SignalTags(call.hashes) = {"t1"}
    /\ DOMAIN inboundsHashMap = {"t1"}
    /\ Size(inboundsHashMap["t1"]) = 1

\* C16: a RemoveUserFromInbound(tag, id) that removes the last tracked member
\* of tag makes GetInboundHash(tag) return "" and removes tag from
\* GetXtlsConfigInbounds; and as long as tag is not tracked, IsNeedRestartCore
\* is true for every signal that lists tag.
C16_RemoveLastMember ==
    /\ [][\A t \in Tags, id \in MemberIds :
             (/\ call'.op = "RemoveUserFromInbound"
              /\ call'.tag = t /\ call'.id = id
              /\ IsLastMember(t, id))
                 => (/\ GetInboundHash(t) = ""
                     /\ t \notin GetXtlsConfigInbounds
                     /\ \A sig \in Signals :
                            t \in SignalTags(sig) => IsNeedRestartCore(sig))']_vars
    /\ [](\A t \in Tags, sig \in Signals :
             (t \notin DOMAIN inboundsHashMap /\ t \in SignalTags(sig))
                 => IsNeedRestartCore(sig))

\* the last member of t1 has just been removed while t2 stays tracked, and a
\* signal with the mirror's base fingerprint and as many entries as the mirror
\* tracks lists t1
C16_Witness ==
    /\ call.op = "RemoveUserFromInbound"
    /\ call.last
    /\ call.tag = "t1"
    /\ DOMAIN inboundsHashMap = {"t2"}
    /\ \E sig \in Signals :
           /\ sig.EmptyConfig = emptyConfigHash
           /\ Len(sig.Inbounds) = 1
           /\ sig.Inbounds[1].Tag = "t1"
           /\ IsNeedRestartCore(sig)

\* C17: IsNeedRestartCore never observes a torn mirror: whatever the
\* interleaving with a concurrent ExtractUsersFromConfig, AddUserToInbound,
\* RemoveUserFromInbound or Cleanup, the value it returns is the decision on
\* the mirror as it was entirely before or entirely after that call (never on
\* a mirror in the middle of one), and no writer is inside a method while a
\* reader is.
C17_NoTornMirror ==
    /\ \A p \in MirrorReaders : pc[p] = "RUnlock" => ret[p] \in loc[p].allowed
    /\ cmMu.writer # "" => cmMu.readers = {}
    /\ \A p \in MirrorReaders :
           pc[p] \in {"conditions 1-2", "condition 3", "conditions 4-5", "RUnlock"}
               => \A w \in MirrorWriters : pc[w] \in {"idle", "Lock"}

\* IsNeedRestartCore is about to return false for a signal of two inbounds
\* while an ExtractUsersFromConfig waits for the lock
C17_Witness ==
    \E p \in MirrorReaders, w \in MirrorWriters :
        /\ pc[p] = "RUnlock" /\ ~ret[p]
        /\ Len(req[p].hashes.Inbounds) = 2
        /\ pc[w] = "Lock" /\ req[w].op = "ExtractUsersFromConfig"
        /\ IsNeedRestartCore(req[w].hashes)

\* the signal has the mirror's (non-empty) base fingerprint and as many
\* entries as the mirror tracks inbounds, and lists a tag the mirror does not
\* track
MismatchedTags(sig) ==
    /\ emptyConfigHash # ""
    /\ sig.EmptyConfig = emptyConfigHash
    /\ Len(sig.Inbounds) = Cardinality(DOMAIN inboundsHashMap)
    /\ \E t \in SignalTags(sig) : t \notin DOMAIN inboundsHashMap

\* some entry of the signal carries a fingerprint other than the one the
\* mirror holds for its tag
FingerprintDiffers(sig) ==
    \E i \in 1..Len(sig.Inbounds) :
        /\ sig.Inbounds[i].Tag \in DOMAIN inboundsHashMap
        /\ sig.Inbounds[i].Hash # Hash64String(inboundsHashMap[sig.Inbounds[i].Tag])

\* C18 as stated: with mismatched tag sets of equal cardinality and matching
\* base fingerprints, IsNeedRestartCore returns false unless a per-tag
\* fingerprint also differs
C18_MismatchUndetected ==
    \A sig \in Signals :
        (MismatchedTags(sig) /\ ~FingerprintDiffers(sig)) => ~IsNeedRestartCore(sig)

\* C18 amended: with mismatched tag sets of equal cardinality and matching
\* base fingerprints, IsNeedRestartCore returns true whether or not a per-tag
\* fingerprint differs, because some tracked tag is then missing from the
\* signal (condition 4)
C18_MismatchDetected ==
    \A sig \in Signals :
        MismatchedTags(sig)
            => /\ IsNeedRestartCore(sig)
               /\ \E t \in DOMAIN inboundsHashMap : t \notin SignalTags(sig)

\* the mirror tracks t1 with one member, and a signal with the same base
\* fingerprint lists t2 instead, with the very fingerprint the mirror holds
\* for t1
C18_Witness ==
    /\ DOMAIN inboundsHashMap = {"t1"}
    /\ Size(inboundsHashMap["t1"]) = 1
    /\ \E sig \in Signals :
           /\ MismatchedTags(sig)
           /\ ~FingerprintDiffers(sig)
           /\ sig.Inbounds = <<InboundHash("t2", GetInboundHash("t1"))>>
           /\ IsNeedRestartCore(sig)

\* XOR over a set of strings of their dual hashes
RECURSIVE XorFold(_)
XorFold(members) ==
    IF members = {} THEN [high |-> <<0, 0>>, low |-> <<0, 0>>]
    ELSE LET m == CHOOSE x \in members : TRUE
             r == XorFold(members \ {m})
             d == djb2Dual(m)
         IN  [high |-> XorW(r.high, d.high), low |-> XorW(r.low, d.low)]

\* C19: after any sequence of Add, Delete and Clear on a HashedSet, the set
\* holds exactly the current members, (hashHigh, hashLow) is the XOR over the
\* current members of each member's dual hash, Size() is the number of
\* distinct current members, and Hash64String() is that of a set freshly
\* built from the same members.
C19_AccumulatorIsXorOfMembers ==
    /\ loc.s.items = loc.members
    /\ loc.s.hashHigh = XorFold(loc.members).high
    /\ loc.s.hashLow = XorFold(loc.members).low
    /\ Size(loc.s) = Cardinality(loc.members)
    /\ Hash64String(loc.s) = Hash64String(SetOf(loc.members))

\* a Delete has just taken a member out of a set that still holds three,
\* "abcdef" among them
C19_Witness ==
    /\ call.op = "Delete"
    /\ call.str \notin loc.members
    /\ Cardinality(loc.members) = 3
    /\ <<97, 98, 99, 100, 101, 102>> \in loc.members
    /\ Hash64String(loc.s) # Hash64String(NewHashedSet)

\* C20: order independence: when every element of a sequence has been added
\* to an empty set, in whatever order of the sequence's positions,
\* Hash64String() is the one obtained by adding them in the sequence's order.
C20_OrderIndependence ==
    loc.todo = {} => Hash64String(loc.s) = Hash64String(AddAll(NewHashedSet, call.ids, 1))

\* a sequence of three different strings has been added completely
C20_Witness ==
    /\ Len(call.ids) = 3
    /\ Cardinality({call.ids[i] : i \in 1..3}) = 3
    /\ loc.todo = {}
    /\ Size(loc.s) = 3

\* the call just made was Delete(m) and the one before it Add(m)
AddThenDelete ==
    /\ call.op = "Delete"
    /\ call.prev.op = "Add"
    /\ call.prev.str = call.str

\* C21 as stated: for any string m and any prior contents, Add(m) followed by
\* Delete(m) restores Hash64String() to its value before the Add
C21_AddDeleteRestores ==
    AddThenDelete => Hash64String(loc.s) = call.prev.before.hash

\* C21 amended: Add(m) followed by Delete(m) restores Hash64String() to its
\* value before the Add exactly when m was not a member before the Add; when
\* it was, the Add changes nothing and the Delete takes m out, so that
\* Hash64String() becomes that of the prior contents without m
C21_AddDeleteRestoresNonMember ==
    AddThenDelete =>
        /\ ~call.prev.before.has => Hash64String(loc.s) = call.prev.before.hash
        /\ call.prev.before.has
              => /\ call.before.hash = call.prev.before.hash
                 /\ call.str \notin loc.s.items
                 /\ Size(loc.s) = call.prev.before.size - 1
                 /\ Hash64String(Add(loc.s, call.str)) = call.prev.before.hash

\* "abcdef" has been added to a set of two other members and deleted again
C21_Witness ==
    /\ AddThenDelete
    /\ call.str = <<97, 98, 99, 100, 101, 102>>
    /\ ~call.prev.before.has
    /\ call.prev.before.size = 2
    /\ call.before.hash # call.prev.before.hash
    /\ Hash64String(loc.s) = call.prev.before.hash

\* C22: Add of a string that is already a member, and Delete of a string
\* that is not a member, change neither Hash64String() nor Size().
C22_NoDoubleToggle ==
    /\ (call.op = "Add" /\ call.before.has)
          => (Hash64String(loc.s) = call.before.hash /\ Size(loc.s) = call.before.size)
    /\ (call.op = "Delete" /\ ~call.before.has)
          => (Hash64String(loc.s) = call.before.hash /\ Size(loc.s) = call.before.size)

\* a member of a two-member set has been added a second time, right after a
\* Delete of a string the set did not hold
C22_Witness ==
    /\ call.op = "Add" /\ call.before.has
    /\ call.before.size = 2
    /\ call.prev.op = "Delete" /\ ~call.prev.before.has

\* C23: whenever the set has no members (new, after Clear, or after every
\* added member has been deleted, in any order), Hash64String() is exactly
\* "0000000000000000".
C23_EmptyIsZero ==
    loc.members = {} => Hash64String(loc.s) = "0000000000000000"

\* the last of two members has just been deleted, the other one right before
\* it, and the set is empty
C23_Witness ==
    /\ loc.members = {}
    /\ call.op = "Delete" /\ call.before.has
    /\ call.prev.op = "Delete" /\ call.prev.before.has
    /\ call.prev.before.size = 2

\* the set that holds str and nothing else
Singleton(str) ==
    [items |-> {str}, hashHigh |-> djb2Dual(str).high, hashLow |-> djb2Dual(str).low]

\* C30: AddUserToInbound(tag, id) on a tag the mirror does not track creates
\* an entry for tag that holds the single member id, so GetInboundHash(tag) is
\* the fingerprint of the one-member set {id}; on a tracked tag it adds id to
\* the set there is: the members are the former members and id.  The other
\* entries and the other fields of the mirror stay as they are.
C30_AddUserToInbound ==
    [][\A t \in Tags, id \in MemberIds :
          (call'.op = "AddUserToInbound" /\ call'.tag = t /\ call'.id = id) =>
              /\ DOMAIN inboundsHashMap' = DOMAIN inboundsHashMap \cup {t}
              /\ \A o \in DOMAIN inboundsHashMap \ {t} :
                     inboundsHashMap'[o] = inboundsHashMap[o]
              /\ UNCHANGED <<emptyConfigHash, xtlsConfigInbounds, xrayConfig>>
              /\ IF t \notin DOMAIN inboundsHashMap
                 THEN /\ inboundsHashMap'[t].items = {id}
                      /\ (GetInboundHash(t))' = Hash64String(Singleton(id))
                 ELSE /\ inboundsHashMap'[t].items = inboundsHashMap[t].items \cup {id}
                      /\ inboundsHashMap'[t] = Add(inboundsHashMap[t], id)]_vars

\* AddUserToInbound has created the entry of a tag that was not tracked, next
\* to a tracked tag with two members
C30_Witness ==
    /\ call.op = "AddUserToInbound"
    /\ call.tag \in DOMAIN inboundsHashMap
    /\ call.tag \notin xtlsConfigInbounds
    /\ inboundsHashMap[call.tag].items = {call.id}
    /\ \E o \in DOMAIN inboundsHashMap \ {call.tag} :
           Cardinality(inboundsHashMap[o].items) = 2

\* what a caller can observe of the mirror: GetXtlsConfigInbounds,
\* GetInboundHash of every tag and IsNeedRestartCore of every signal
Observable ==
    <<GetXtlsConfigInbounds, [t \in Tags |-> GetInboundHash(t)],
      [sig \in Signals |-> IsNeedRestartCore(sig)]>>
\* the tag is tracked with an empty member set
TrackedEmpty(tag) ==
    tag \in DOMAIN inboundsHashMap /\ Size(inboundsHashMap[tag]) = 0

\* C34 as stated: RemoveUserFromInbound(tag, id) with an id that is not a
\* member of the tag's set leaves GetXtlsConfigInbounds, GetInboundHash of
\* every tag and IsNeedRestartCore of every signal as they were, also when the
\* tag is tracked with an empty member set
C34_NonMemberRemovalChangesNothing ==
    [][(call'.op = "RemoveUserFromInbound" /\ ~call'.member)
          => Observable' = Observable]_vars

\* C34 amended: RemoveUserFromInbound(tag, id) with an id that is not a member
\* of the tag's set leaves GetXtlsConfigInbounds, GetInboundHash of every tag
\* and IsNeedRestartCore of every signal as they were, except when the tag is
\* tracked with an empty member set: the call then deletes the tag's entry, so
\* that the tag leaves GetXtlsConfigInbounds and its GetInboundHash becomes
\* "", and leaves every other tag as it was
C34_NonMemberRemoval ==
    [][(call'.op = "RemoveUserFromInbound" /\ ~call'.member) =>
          IF TrackedEmpty(call'.tag)
          THEN /\ GetXtlsConfigInbounds' = GetXtlsConfigInbounds \ {call'.tag}
               /\ \A t \in Tags :
                      GetInboundHash(t)' = IF t = call'.tag THEN "" ELSE GetInboundHash(t)
               /\ emptyConfigHash' = emptyConfigHash /\ xrayConfig' = xrayConfig
          ELSE Observable' = Observable]_vars
\* an id that is not a member has been removed from an inbound tracked with
\* another member, beside an inbound tracked with no member
C34_Witness ==
    /\ call.op = "RemoveUserFromInbound" /\ ~call.member
    /\ call.tag = "t1" /\ call.id = U2
    /\ "t1" \in DOMAIN inboundsHashMap /\ inboundsHashMap["t1"].items = {U1}
    /\ TrackedEmpty("t2")

\* C13: while the mirror is in its never-started state (constructed or cleaned
\* up, and no ExtractUsersFromConfig since: only AddUserToInbound and
\* RemoveUserFromInbound calls, which leave the base fingerprint alone),
\* IsNeedRestartCore is true for every signal; and right after Cleanup
\* GetXtlsConfigInbounds is empty and GetInboundHash(tag) is "" for every tag.
C13_NeverStartedNeedsRestart ==
    /\ [](call.op \in {"NewConfigManager", "Cleanup"} => emptyConfigHash = "")
    /\ [][call'.op \in {"AddUserToInbound", "RemoveUserFromInbound"}
             => emptyConfigHash' = emptyConfigHash]_vars
    /\ [](emptyConfigHash = "" => \A sig \in Signals : IsNeedRestartCore(sig))
    /\ [](call.op = "Cleanup"
             => /\ GetXtlsConfigInbounds = {}
                /\ \A t \in Tags \cup {""} : GetInboundHash(t) = "")

\* in a never-started mirror an inbound has been tracked through
\* AddUserToInbound, and a signal that describes the tracked inbound exactly
\* still needs a restart
C13_Witness ==
    /\ call.op = "AddUserToInbound"
    /\ emptyConfigHash = ""
    /\ xrayConfig = <<>>
    /\ DOMAIN inboundsHashMap = {"t1"}
    /\ \E sig \in Signals :
           /\ Len(sig.Inbounds) = 1
           /\ sig.Inbounds[1] = InboundHash("t1", GetInboundHash("t1"))
           /\ IsNeedRestartCore(sig)

-----------------------------------------------------------------------------
(* Core: the handle on the embedded engine (src/internal/xray/core.go:37-122)  *)

\* what the engine makes of a configuration: LoadConfig rejects a malformed
\* one, core.New rejects an invalid one
ConfigKinds == {"ok", "malformed", "invalid"}

\* the protocols whose inbounds keep a user registry (proxy.UserManager,
\* src/internal/xray/users.go:36-55 and accounts.go:108-117)
UserProtocols == {"vless", "trojan", "shadowsocks"}

\* the users the engine registers per inbound when it is built from cfg
UserInbounds(cfg) ==
    {i \in 1..Len(cfg.inbounds) :
        cfg.inbounds[i].tag # "" /\ cfg.inbounds[i].protocol \in UserProtocols}
InboundUsers(cfg) ==
    [t \in {cfg.inbounds[i].tag : i \in UserInbounds(cfg)} |->
        UNION {{cfg.inbounds[i].clients[j].email : j \in 1..Len(cfg.inbounds[i].clients)} :
                  i \in {k \in UserInbounds(cfg) : cfg.inbounds[k].tag = t}}]

\* the fields of Core and the engine instances they point into
CoreState == [instance |-> instance, running |-> running, insts |-> insts]

\* instance.Close(): it may fail, and a failing Close may or may not have
\* closed the instance
CloseOutcomes == {[fails |-> FALSE, closes |-> TRUE],
                  [fails |-> TRUE, closes |-> TRUE],
                  [fails |-> TRUE, closes |-> FALSE]}
Close(instances, id, o) ==
    [instances EXCEPT ![id].status = IF o.closes THEN "closed" ELSE @]

\* stopLocked, core.go:88-102; a variant that closes the instance and keeps
\* the fields
stopLockedKeepFields(st, o) ==
    IF st.instance = 0 THEN [st |-> st, err |-> "nil"]
    ELSE [st |-> [st EXCEPT !.insts = Close(st.insts, st.instance, o)],
          err |-> IF o.fails THEN "failed to close xray instance" ELSE "nil"]
\* a variant that clears the running flag and keeps the instance field
stopLockedKeepInstance(st, o) ==
    IF st.instance = 0 THEN [st |-> st, err |-> "nil"]
    ELSE IF o.fails
         THEN [st |-> [st EXCEPT !.insts = Close(st.insts, st.instance, o)],
               err |-> "failed to close xray instance"]
         ELSE [st |-> [instance |-> st.instance, running |-> FALSE,
                       insts |-> Close(st.insts, st.instance, o)],
               err |-> "nil"]
stopLocked(st, o) ==
    IF st.instance = 0 THEN [st |-> st, err |-> "nil"]
    ELSE IF o.fails
         THEN [st |-> [st EXCEPT !.insts = Close(st.insts, st.instance, o)],
               err |-> "failed to close xray instance"]
         ELSE [st |-> [instance |-> 0, running |-> FALSE,
                       insts |-> Close(st.insts, st.instance, o)],
               err |-> "nil"]

\* Start, core.go:54-58: stop the existing instance first; a variant that
\* never stops it
StartStopExistingNever(st, o) == [st |-> st, err |-> "nil"]
StartStopExisting(st, o) ==
    IF st.running
    THEN LET r == stopLocked(st, o)
         IN  [st |-> r.st,
              err |-> IF r.err = "nil" THEN "nil" ELSE "failed to stop existing instance"]
    ELSE [st |-> st, err |-> "nil"]

\* Start, core.go:60-63
LoadConfig(cfg) == IF cfg.kind = "malformed" THEN "failed to load config" ELSE "nil"

\* the router feature the engine builds from a configuration: "dynamic" takes
\* AddRule and RemoveRule (routerWithRules, core.go:124-128), "static" does
\* not, "none" is an engine without the feature
RouterKinds == {"dynamic", "static", "none"}
RouterOf(cfg) == IF "router" \in DOMAIN cfg THEN cfg.router ELSE "dynamic"

\* Start, core.go:65-68: core.New builds a new instance, not yet started;
\* its router holds no dynamic rule
New(st, cfg) ==
    IF cfg.kind = "invalid"
    THEN [st |-> st, id |-> 0, err |-> "failed to create xray instance"]
    ELSE [st |-> [st EXCEPT !.insts = Append(st.insts,
                        [status |-> "created", ran |-> FALSE, cfg |-> cfg,
                         users |-> InboundUsers(cfg), router |-> RouterOf(cfg),
                         rules |-> {}])],
          id |-> Len(st.insts) + 1, err |-> "nil"]

\* instance.Start(): it succeeds, or it fails and the instance.Close() that
\* follows (core.go:71) does one of the things a Close can do
StartOutcomes ==
    {[fails |-> FALSE]} \cup {[fails |-> TRUE, close |-> o] : o \in CloseOutcomes}

\* Start, core.go:70-79: instance.Start(); on failure Close is called on the
\* new instance, what it returns is dropped, and the handle is left as it is;
\* on success the instance is stored
StartInstance(st, id, start) ==
    IF start.fails
    THEN [st |-> [st EXCEPT !.insts = Close(st.insts, id, start.close)],
          err |-> "failed to start xray"]
    ELSE [st |-> [instance |-> id, running |-> TRUE,
                  insts |-> [st.insts EXCEPT ![id].status = "started", ![id].ran = TRUE]],
          err |-> "nil"]

\* Start as a whole, core.go:50-80, given what Close and instance.Start do
Start(st, cfg, o, start) ==
    LET s1 == StartStopExisting(st, o)
        s2 == New(s1.st, cfg)
    IN  IF s1.err # "nil" THEN s1
        ELSE IF LoadConfig(cfg) # "nil" THEN [st |-> s1.st, err |-> LoadConfig(cfg)]
        ELSE IF s2.err # "nil" THEN [st |-> s2.st, err |-> s2.err]
        ELSE StartInstance(s2.st, s2.id, start)

\* Stop as a whole, core.go:82-86
Stop(st, o) == stopLocked(st, o)

SetCore(st) ==
    /\ instance' = st.instance
    /\ running' = st.running
    /\ insts' = st.insts

StartedInstances == {i \in 1..Len(insts) : insts[i].status = "started"}

(* Concurrent callers of one Core, one step per statement of Start and Stop *)

CoreTasks == {"g1", "g2"}
CoreConfigs == {[kind |-> k, hasInbounds |-> TRUE, inbounds |-> <<>>] : k \in ConfigKinds}
StartOps == {"Start", "Restart"}

InitCoreTasks ==
    /\ InitConfigManager
    /\ InitCore
    /\ InitController
    /\ call = [op |-> "NewCore"]
    /\ pc = [p \in CoreTasks |-> "idle"]
    /\ req = [p \in CoreTasks |-> [op |-> "none"]]
    /\ ret = [p \in CoreTasks |-> ""]
    /\ loc = [p \in CoreTasks |-> 0]

\* instances the calls in progress can still create
PendingInstances ==
    Cardinality({q \in CoreTasks : pc[q] # "idle" /\ req[q].op \in StartOps
                                     /\ loc[q] = 0 /\ ret[q] = ""})

CoreCallStart(p) ==
    /\ pc[p] = "idle"
    /\ Len(insts) + PendingInstances < MaxInstances
    /\ \E op \in StartOps, cfg \in CoreConfigs :
           req' = [req EXCEPT ![p] = [op |-> op, cfg |-> cfg]]
    /\ pc' = [pc EXCEPT ![p] = "Lock"]
    /\ ret' = [ret EXCEPT ![p] = ""]
    /\ loc' = [loc EXCEPT ![p] = 0]
    /\ UNCHANGED <<cmVars, call, ctlVars, coreVars, engineVars>>

CoreCallStop(p) ==
    /\ pc[p] = "idle"
    /\ req' = [req EXCEPT ![p] = [op |-> "Stop"]]
    /\ pc' = [pc EXCEPT ![p] = "Lock"]
    /\ ret' = [ret EXCEPT ![p] = ""]
    /\ loc' = [loc EXCEPT ![p] = 0]
    /\ UNCHANGED <<cmVars, call, ctlVars, coreVars, engineVars>>

\* c.mu.Lock(), core.go:51 and 83
CoreLock(p) ==
    /\ pc[p] = "Lock"
    /\ coreMu = ""
    /\ coreMu' = p
    /\ pc' = [pc EXCEPT ![p] = IF req[p].op = "Stop" THEN "Stop.stopLocked"
                                                      ELSE "Start.stopLocked"]
    /\ UNCHANGED <<cmVars, call, ctlVars, instance, running, engineVars, req, ret, loc>>

\* core.go:85
CoreStopBody(p) ==
    /\ pc[p] = "Stop.stopLocked"
    /\ \E o \in CloseOutcomes :
           LET r == Stop(CoreState, o)
           IN  /\ SetCore(r.st)
               /\ ret' = [ret EXCEPT ![p] = r.err]
    /\ pc' = [pc EXCEPT ![p] = "Unlock"]
    /\ UNCHANGED <<cmVars, call, ctlVars, coreMu, req, loc>>

\* core.go:54-58
CoreStartStopExisting(p) ==
    /\ pc[p] = "Start.stopLocked"
    /\ \E o \in CloseOutcomes :
           LET r == StartStopExisting(CoreState, o)
           IN  /\ SetCore(r.st)
               /\ ret' = [ret EXCEPT ![p] = IF r.err = "nil" THEN "" ELSE r.err]
               /\ pc' = [pc EXCEPT ![p] = IF r.err = "nil" THEN "Start.LoadConfig"
                                                            ELSE "Unlock"]
    /\ UNCHANGED <<cmVars, call, ctlVars, coreMu, req, loc>>

\* core.go:60-63
CoreStartLoadConfig(p) ==
    /\ pc[p] = "Start.LoadConfig"
    /\ LET err == LoadConfig(req[p].cfg)
       IN  /\ ret' = [ret EXCEPT ![p] = IF err = "nil" THEN "" ELSE err]
           /\ pc' = [pc EXCEPT ![p] = IF err = "nil" THEN "Start.New" ELSE "Unlock"]
    /\ UNCHANGED <<cmVars, call, ctlVars, coreVars, engineVars, req, loc>>

\* core.go:65-68
CoreStartNew(p) ==
    /\ pc[p] = "Start.New"
    /\ LET r == New(CoreState, req[p].cfg)
       IN  /\ SetCore(r.st)
           /\ loc' = [loc EXCEPT ![p] = r.id]
           /\ ret' = [ret EXCEPT ![p] = IF r.err = "nil" THEN "" ELSE r.err]
           /\ pc' = [pc EXCEPT ![p] = IF r.err = "nil" THEN "Start.instance.Start"
                                                        ELSE "Unlock"]
    /\ UNCHANGED <<cmVars, call, ctlVars, coreMu, req>>

\* core.go:70-79
CoreStartInstance(p) ==
    /\ pc[p] = "Start.instance.Start"
    /\ \E start \in StartOutcomes :
           LET r == StartInstance(CoreState, loc[p], start)
           IN  /\ SetCore(r.st)
               /\ ret' = [ret EXCEPT ![p] = r.err]
    /\ pc' = [pc EXCEPT ![p] = "Unlock"]
    /\ UNCHANGED <<cmVars, call, ctlVars, coreMu, req, loc>>

\* the deferred c.mu.Unlock(), core.go:52 and 84
CoreUnlock(p) ==
    /\ pc[p] = "Unlock"
    /\ coreMu' = ""
    /\ pc' = [pc EXCEPT ![p] = "idle"]
    /\ UNCHANGED <<cmVars, call, ctlVars, instance, running, engineVars, req, ret, loc>>

\* IsRunning, core.go:104-108: a read lock, so it waits for a writer
CoreIsRunning(p) ==
    /\ pc[p] = "idle"
    /\ coreMu = ""
    /\ req' = [req EXCEPT ![p] = [op |-> "IsRunning"]]
    /\ ret' = [ret EXCEPT ![p] = IF running THEN "true" ELSE "false"]
    /\ loc' = [loc EXCEPT ![p] = 0]
    /\ UNCHANGED <<cmVars, call, ctlVars, coreVars, engineVars, pc>>

NextCore ==
    \E p \in CoreTasks :
        \/ CoreCallStart(p)
        \/ CoreCallStop(p)
        \/ CoreLock(p)
        \/ CoreStopBody(p)
        \/ CoreStartStopExisting(p)
        \/ CoreStartLoadConfig(p)
        \/ CoreStartNew(p)
        \/ CoreStartInstance(p)
        \/ CoreUnlock(p)
        \/ CoreIsRunning(p)

SpecCore == InitCoreTasks /\ [][NextCore]_vars

-----------------------------------------------------------------------------
(* Claims about Core *)

CoreLockedPcs == {"Stop.stopLocked", "Start.stopLocked", "Start.LoadConfig",
                  "Start.New", "Start.instance.Start", "Unlock"}
InsideCore == {p \in CoreTasks : pc[p] \in CoreLockedPcs}

\* C9: Start, Stop and Restart on one Core execute one at a time (at most one
\* task is between c.mu.Lock() and the deferred Unlock, and it is the holder
\* of c.mu), at most one engine instance is started at any moment, and a
\* Start or Restart that returns nil leaves exactly one started instance,
\* the one the handle stores.
C9_OneAtATimeOneInstance ==
    /\ Cardinality(InsideCore) <= 1
    /\ \A p \in InsideCore : coreMu = p
    /\ Cardinality(StartedInstances) <= 1
    /\ \A p \in CoreTasks :
           (pc[p] = "Unlock" /\ req[p].op \in StartOps /\ ret[p] = "nil")
               => (running /\ StartedInstances = {instance})

\* a Restart has replaced a started instance while the other task waits for
\* the lock
C9_Witness ==
    \E p, q \in CoreTasks :
        /\ p # q
        /\ pc[p] = "Unlock" /\ req[p].op = "Restart" /\ ret[p] = "nil"
        /\ instance = 2 /\ insts[1].status = "closed" /\ insts[2].status = "started"
        /\ pc[q] = "Lock" /\ req[q].op \in StartOps

\* C10: when stopping the current instance fails during Start, Start returns
\* the stop error and the handle is left not-running.
C10_StopFailureLeavesNotRunning ==
    \A p \in CoreTasks :
        (pc[p] = "Unlock" /\ req[p].op \in StartOps
            /\ ret[p] = "failed to stop existing instance")
            => (~running /\ instance = 0)

ConfigurationErrors == {"failed to load config", "failed to create xray instance",
                        "failed to start xray"}

\* when Start or Restart returns a configuration error (load, creation or
\* start failure), the handle is not-running (running is false and the
\* instance field is nil) whether or not an instance was running before, and
\* no instance is left started
ConfigErrorLeavesHandleNotRunning ==
    \A p \in CoreTasks :
        (pc[p] = "Unlock" /\ req[p].op \in StartOps /\ ret[p] \in ConfigurationErrors)
            => ~running /\ instance = 0 /\ StartedInstances = {}

\* C11 as stated: when Start or Restart returns a configuration error (load,
\* creation or start failure), the handle is not-running (running is false
\* and the instance field is nil) whether or not an instance was running
\* before, and the instance whose start failed has been closed.
C11_ConfigErrorLeavesNotRunning ==
    \A p \in CoreTasks :
        (pc[p] = "Unlock" /\ req[p].op \in StartOps /\ ret[p] \in ConfigurationErrors)
            => /\ ~running
               /\ instance = 0
               /\ StartedInstances = {}
               /\ ret[p] = "failed to start xray" => insts[loc[p]].status = "closed"

\* C12: Stop on a non-running handle returns nil and changes nothing (neither
\* the fields of the handle nor any engine instance); Stop on a running handle
\* whose Close succeeds returns nil, closes the instance, and leaves running
\* false and the instance field nil.
C12_StopEffect ==
    [][\A p \in CoreTasks :
          (pc[p] = "Stop.stopLocked" /\ pc'[p] = "Unlock")
              => /\ ~running => (ret'[p] = "nil" /\ UNCHANGED <<coreVars, engineVars>>)
                 /\ (running /\ ret'[p] = "nil")
                        => /\ ~running'
                           /\ instance' = 0
                           /\ insts' = [insts EXCEPT ![instance].status = "closed"]]_vars

\* one Stop has closed the running instance and returned nil, and a later
\* Stop on the then non-running handle is about to return nil
C12_Witness ==
    \E p, q \in CoreTasks :
        /\ p # q
        /\ pc[p] = "Unlock" /\ req[p].op = "Stop" /\ ret[p] = "nil"
        /\ pc[q] = "idle" /\ req[q].op = "Stop" /\ ret[q] = "nil"
        /\ Len(insts) = 1 /\ insts[1].ran /\ insts[1].status = "closed"
        /\ ~running /\ instance = 0

\* C36: in every state, whatever Start, Stop and Restart calls have run and
\* however they ended (a failing Close included), the running flag is true
\* exactly when the handle stores an instance.
C36_RunningIffInstance == running <=> instance # 0

\* a Stop whose Close failed is about to return its error with the handle
\* still running and still storing the instance, after an earlier Restart
\* whose start failed had left the handle without one
C36_Witness ==
    \E p \in CoreTasks :
        /\ pc[p] = "Unlock" /\ req[p].op = "Stop"
        /\ ret[p] = "failed to close xray instance"
        /\ running /\ instance = 3
        /\ insts[2].status = "closed" /\ ~insts[2].ran

-----------------------------------------------------------------------------
(* Dynamic routing rules (src/internal/xray/core.go:124-223)                   *)

\* rule tags and source addresses of the callers; "" is the empty tag
RuleTags == {"r1", "r2", ""}
SourceIPs == {"10.0.0.1", "not-an-ip"}
ParseIP(ip) == ip # "not-an-ip"

\* getRouter, core.go:130-150
getRouter(st) ==
    IF st.instance = 0 THEN "xray instance not running"
    ELSE IF st.insts[st.instance].router = "none" THEN "router feature not found"
    ELSE IF st.insts[st.instance].router = "static"
         THEN "router does not support dynamic rule management"
    ELSE "nil"

\* the engine's router.AddRule(msg, true): it appends the rule or fails
AddRule(rules, tag, fails) ==
    IF fails THEN [rules |-> rules, err |-> "failed"]
    ELSE [rules |-> rules \cup {tag}, err |-> "nil"]

\* the engine's router.RemoveRule(tag), as core.go:212-221 expects it: an
\* empty tag is refused, a rule that exists is removed unless the engine
\* fails, and for a tag without a rule the engine either does nothing or
\* reports that the rule was not found
RemoveRuleOutcomes == {"nil", "not found", "failed"}
RemoveRule(rules, tag, o) ==
    IF tag = "" THEN [rules |-> rules, err |-> "empty tag"]
    ELSE IF tag \in rules
         THEN IF o = "failed" THEN [rules |-> rules, err |-> "failed"]
              ELSE [rules |-> rules \ {tag}, err |-> "nil"]
    ELSE [rules |-> rules, err |-> IF o = "not found" THEN "not found" ELSE "nil"]

\* AddRoutingRule, core.go:152-204
AddRoutingRule(st, ruleTag, sourceIP, fails) ==
    LET r == AddRule(st.insts[st.instance].rules, ruleTag, fails)
    IN  IF getRouter(st) # "nil" THEN [st |-> st, err |-> getRouter(st)]
        ELSE IF ~ParseIP(sourceIP) THEN [st |-> st, err |-> "invalid IP address"]
        ELSE [st |-> [st EXCEPT !.insts[st.instance].rules = r.rules],
              err |-> IF r.err = "nil" THEN "nil" ELSE "failed to add routing rule"]

\* RemoveRoutingRule, core.go:206-223; a variant that passes on every error
\* of the engine
RemoveRoutingRuleStrict(st, ruleTag, o) ==
    LET r == RemoveRule(st.insts[st.instance].rules, ruleTag, o)
    IN  IF getRouter(st) # "nil" THEN [st |-> st, err |-> getRouter(st)]
        ELSE [st |-> [st EXCEPT !.insts[st.instance].rules = r.rules],
              err |-> IF r.err = "nil" THEN "nil"
                      ELSE "failed to remove routing rule"]
RemoveRoutingRule(st, ruleTag, o) ==
    LET r == RemoveRule(st.insts[st.instance].rules, ruleTag, o)
    IN  IF getRouter(st) # "nil" THEN [st |-> st, err |-> getRouter(st)]
        ELSE [st |-> [st EXCEPT !.insts[st.instance].rules = r.rules],
              err |-> IF r.err = "nil" \/ r.err \in {"not found", "empty tag"}
                      THEN "nil"
                      ELSE "failed to remove routing rule"]

\* the routing rules of the stored instance
RoutingRules == IF instance = 0 THEN {} ELSE insts[instance].rules

(* One caller of AddRoutingRule and RemoveRoutingRule, beside callers of Start *)
(* and Stop.  getRouter releases Core.mu before the router is used             *)
(* (core.go:131-133), so a Start or Stop can run between getRouter and the      *)
(* engine's AddRule or RemoveRule, which then act on the router of the          *)
(* instance that getRouter read.                                               *)

RoutingConfigs ==
    {[kind |-> "ok", hasInbounds |-> TRUE, inbounds |-> <<>>, router |-> k] :
        k \in RouterKinds}

\* the locals of the routing caller: the method it is in, its arguments and
\* the instance getRouter read
NoRoutingCall == [op |-> "none"]

InitRouting ==
    /\ InitConfigManager
    /\ InitCore
    /\ InitController
    /\ call = [op |-> "NewCore"]
    /\ pc = <<>>
    /\ req = <<>>
    /\ ret = <<>>
    /\ loc = NoRoutingCall

RoutingStart ==
    /\ Len(insts) < MaxInstances
    /\ \E cfg \in RoutingConfigs, o \in CloseOutcomes, start \in StartOutcomes :
           LET r == Start(CoreState, cfg, o, start)
           IN  SetCore(r.st)
    /\ UNCHANGED <<cmVars, call, coreMu, ctlVars, taskVars>>

RoutingStop ==
    /\ \E o \in CloseOutcomes :
           LET r == Stop(CoreState, o)
           IN  SetCore(r.st)
    /\ UNCHANGED <<cmVars, call, coreMu, ctlVars, taskVars>>

\* the first statement of AddRoutingRule and RemoveRoutingRule, core.go:153
\* and 207: getRouter; its error is the method's
CallGetRouter ==
    /\ loc = NoRoutingCall
    /\ \E op \in {"AddRoutingRule", "RemoveRoutingRule"}, ruleTag \in RuleTags,
          sourceIP \in SourceIPs :
           /\ op = "AddRoutingRule" => ruleTag # ""
           /\ op = "RemoveRoutingRule" => sourceIP = "10.0.0.1"
           /\ IF getRouter(CoreState) # "nil"
              THEN /\ call' = [op |-> op, ruleTag |-> ruleTag,
                               err |-> getRouter(CoreState),
                               router |-> getRouter(CoreState)]
                   /\ loc' = loc
              ELSE /\ loc' = [op |-> op, ruleTag |-> ruleTag, sourceIP |-> sourceIP,
                              r |-> instance]
                   /\ call' = call
    /\ UNCHANGED <<cmVars, coreVars, engineVars, ctlVars, pc, req, ret>>

\* the state of the handle as the caller holds it after getRouter: the
\* instances as they are now, the instance the one getRouter read
RouterState == [CoreState EXCEPT !.instance = loc.r]

\* the rest of AddRoutingRule, core.go:158-203
CallAddRoutingRule ==
    /\ loc.op = "AddRoutingRule"
    /\ \E fails \in BOOLEAN :
           LET r == AddRoutingRule(RouterState, loc.ruleTag, loc.sourceIP, fails)
           IN  /\ insts' = r.st.insts
               /\ call' = [op |-> "AddRoutingRule", ruleTag |-> loc.ruleTag,
                           err |-> r.err, router |-> "nil"]
    /\ loc' = NoRoutingCall
    /\ UNCHANGED <<cmVars, coreVars, ctlVars, pc, req, ret>>

\* the rest of RemoveRoutingRule, core.go:212-222
CallRemoveRoutingRule ==
    /\ loc.op = "RemoveRoutingRule"
    /\ \E o \in RemoveRuleOutcomes :
           LET r == RemoveRoutingRule(RouterState, loc.ruleTag, o)
           IN  /\ insts' = r.st.insts
               /\ call' = [op |-> "RemoveRoutingRule", ruleTag |-> loc.ruleTag,
                           err |-> r.err, router |-> "nil", r |-> loc.r,
                           stale |-> loc.r # instance,
                           had |-> loc.ruleTag \in insts[loc.r].rules,
                           before |-> insts[loc.r].rules,
                           engine |-> RemoveRule(insts[loc.r].rules, loc.ruleTag, o).err]
    /\ loc' = NoRoutingCall
    /\ UNCHANGED <<cmVars, coreVars, ctlVars, pc, req, ret>>

NextRouting ==
    \/ RoutingStart
    \/ RoutingStop
    \/ CallGetRouter
    \/ CallAddRoutingRule
    \/ CallRemoveRoutingRule

SpecRouting == InitRouting /\ [][NextRouting]_vars

\* C31: RemoveRoutingRule on an instance whose router takes dynamic rules, for
\* a rule tag that has no rule there, returns no error and leaves the routing
\* rules of every instance as they were, whether the engine does nothing,
\* reports the rule as not found or refuses the empty tag; and a
\* RemoveRoutingRule that follows a successful RemoveRoutingRule of the same
\* tag on the same instance returns no error and changes no rule.
C31_RemoveAbsentRuleSucceeds ==
    /\ [][CallRemoveRoutingRule /\ call'.router = "nil" /\ ~call'.had
            => call'.err = "nil" /\ insts' = insts]_vars
    /\ [][(/\ call.op = "RemoveRoutingRule" /\ call.err = "nil" /\ call.router = "nil"
           /\ CallRemoveRoutingRule /\ call'.ruleTag = call.ruleTag /\ call'.r = call.r)
            => call'.err = "nil" /\ insts' = insts]_vars
\* a rule was removed for a tag without a rule, the engine said "not found",
\* and the instance still has its other rule
C31_Witness ==
    /\ call.op = "RemoveRoutingRule" /\ call.router = "nil" /\ ~call.had
    /\ call.engine = "not found"
    /\ call.err = "nil"
    /\ ~call.stale
    /\ RoutingRules = {"r2"}
    /\ call.ruleTag = "r1"

-----------------------------------------------------------------------------
(* UserManager: user operations on one engine instance                         *)
(* (src/internal/xray/users.go)                                                *)

\* getProxyUserManager, users.go:36-55: the instance has the inbound and the
\* inbound keeps users
HasProxyUserManager(instances, id, tag) == tag \in DOMAIN instances[id].users

\* a protocol.User as the builders of accounts.go make it: the email and the
\* account, which for VLESS holds the id (accounts.go:30-41)
VlessUser(email, uuid) == [email |-> email, account |-> [type |-> "vless", id |-> uuid]]
NilUser == [email |-> "", account |-> [type |-> "nil"]]

\* protocol.User.ToMemoryUser of the engine, called at users.go:69 and 97: the
\* account is parsed, and a VLESS account parses when its id is a UUID
WellFormedUuids == {"11111111-1111-4111-8111-111111111111"}
ToMemoryUser(user) ==
    IF user.account.type = "vless" THEN user.account.id \in WellFormedUuids
    ELSE user.account.type # "nil"

\* AddUser, users.go:59-84; the engine refuses an email the inbound holds
AddUser(instances, id, tag, user) ==
    IF ~HasProxyUserManager(instances, id, tag)
    THEN [insts |-> instances, err |-> "no such inbound tag"]
    ELSE IF ~ToMemoryUser(user)
         THEN [insts |-> instances, err |-> "failed to convert user to memory user"]
    ELSE IF user.email \in instances[id].users[tag]
         THEN [insts |-> instances, err |-> "failed to add user"]
         ELSE [insts |-> [instances EXCEPT ![id].users[tag] = @ \cup {user.email}],
               err |-> "nil"]

\* RemoveUser, users.go:116-135; the engine refuses an email the inbound lacks
RemoveUser(instances, id, tag, email) ==
    IF ~HasProxyUserManager(instances, id, tag)
    THEN [insts |-> instances, err |-> "no such inbound tag"]
    ELSE IF email \notin instances[id].users[tag]
         THEN [insts |-> instances, err |-> "failed to remove user"]
         ELSE [insts |-> [instances EXCEPT ![id].users[tag] = @ \ {email}],
               err |-> "nil"]

\* BuildUserForInbound, accounts.go:105-118: nil for an unsupported type
BuildUserForInbound(inbound, user) ==
    CASE inbound.type = "vless" -> VlessUser(user.userId, user.vlessUuid)
      [] inbound.type = "trojan" ->
            [email |-> user.userId,
             account |-> [type |-> "trojan", password |-> user.trojanPassword]]
      [] inbound.type = "shadowsocks" ->
            [email |-> user.userId,
             account |-> [type |-> "shadowsocks", password |-> user.ssPassword]]
      [] OTHER -> NilUser

-----------------------------------------------------------------------------
(* The controllers: XrayController (src/unnamed/part_014) and                  *)
(* HandlerController (src/unnamed/part_013), one task per request              *)

PushTasks == {"s1", "s2"}
UserTasks == {"u1", "u2"}
Tasks == DOMAIN pc

apiInbound == [tag |-> "api", protocol |-> "dokodemo-door", clients |-> <<>>]

\* generateAPIConfig, part_014:250-329: the api inbound is appended unless the
\* configuration has an inbound tagged api
generateAPIConfig(config) ==
    IF \E i \in 1..Len(config.inbounds) : config.inbounds[i].tag = "api"
    THEN config
    ELSE [config EXCEPT !.hasInbounds = TRUE, !.inbounds = Append(@, apiInbound)]

\* the panel's users: the id the mirror hashes for each email
UuidOf == [alice |-> U1, bob |-> U2]

CfgAlice == [kind |-> "ok", hasInbounds |-> TRUE,
             inbounds |-> <<ConfigInbound("t1", <<Alice>>)>>]
CfgBoth == [kind |-> "ok", hasInbounds |-> TRUE,
            inbounds |-> <<ConfigInbound("t1", <<Alice, Bob>>)>>]
CfgInvalid == [kind |-> "invalid", hasInbounds |-> FALSE, inbounds |-> <<>>]

StartRequests ==
    {[body |-> "ok", forceRestart |-> FALSE, xrayConfig |-> CfgAlice,
      hashes |-> [EmptyConfig |-> "h1",
                  Inbounds |-> <<InboundHash("t1", FingerprintOf(<<U1>>))>>]],
     [body |-> "ok", forceRestart |-> TRUE, xrayConfig |-> CfgBoth,
      hashes |-> [EmptyConfig |-> "h1",
                  Inbounds |-> <<InboundHash("t1", FingerprintOf(<<U1, U2>>))>>]],
     [body |-> "ok", forceRestart |-> FALSE, xrayConfig |-> CfgInvalid,
      hashes |-> [EmptyConfig |-> "h2", Inbounds |-> <<>>]],
     [body |-> "malformed"]}

\* the ids of the VLESS accounts the requests carry: one that is a UUID and
\* one that is not (the field is optional, part_013:19)
GoodUuid == "11111111-1111-4111-8111-111111111111"
BadUuid == ""

\* an entry of AddUserRequest.Data, part_013:15-24
Entry(tag, username, type, uuid) ==
    [tag |-> tag, username |-> username, type |-> type, uuid |-> uuid]
\* an AddUserRequest that binds, part_013:31-34
AddUserBody(data, vlessUuid, prevVlessUuid) ==
    [body |-> "ok", data |-> data, vlessUuid |-> vlessUuid,
     prevVlessUuid |-> prevVlessUuid]
\* a body that ShouldBindJSON refuses
Malformed == [body |-> "malformed"]

AddUserRequests ==
    {AddUserBody(<<Entry("t1", "bob", "vless", GoodUuid)>>, U2, EmptyId),
     AddUserBody(<<>>, U2, EmptyId),
     Malformed}

RemoveUserRequests == {[body |-> "ok", username |-> "bob", vlessUuid |-> U2], Malformed}

\* the requests of each client: u2's are about alice, the one user the first
\* configuration lists; one of them names an inbound type without users, one
\* an inbound the engine does not have, one a second user, one an account id
\* that is no UUID, and one carries no hash data
AliceAddUserRequests ==
    {AddUserBody(<<Entry("t1", "alice", "vless", GoodUuid)>>, U1, EmptyId),
     AddUserBody(<<Entry("t1", "alice", "http", GoodUuid)>>, U1, EmptyId),
     AddUserBody(<<Entry("t1", "alice", "vless", GoodUuid),
                   Entry("t2", "alice", "vless", GoodUuid)>>, U1, EmptyId),
     AddUserBody(<<Entry("t1", "alice", "vless", GoodUuid),
                   Entry("t1", "bob", "vless", GoodUuid)>>, U1, EmptyId),
     AddUserBody(<<Entry("t1", "alice", "vless", BadUuid)>>, U1, EmptyId),
     AddUserBody(<<Entry("t1", "alice", "vless", GoodUuid)>>, EmptyId, EmptyId)}
AddUserRequestsOf(p) == IF p = "u2" THEN AliceAddUserRequests ELSE AddUserRequests
RemoveUserRequestsOf(p) ==
    IF p = "u2" THEN {[body |-> "ok", username |-> "alice", vlessUuid |-> U1]}
    ELSE RemoveUserRequests

NoRequest == [op |-> "none"]
NoResponse == [status |-> 0]
\* the locals of a user request: its UserManager's instance, the snapshot of
\* the tags and the position in it, the positions in the list of users and in
\* a list of inbound entries, and whether the request repeats
\* the request the task was last answered, which was a success
NoLocals == [um |-> 0, allTags |-> <<>>, t |-> 0, u |-> 0, i |-> 0, again |-> FALSE]

\* a node just constructed, serving the requests of the given tasks
InitControllers(tasks) ==
    /\ InitConfigManager
    /\ InitCore
    /\ InitController
    /\ call = [op |-> "NewXrayController"]
    /\ pc = [p \in tasks |-> "idle"]
    /\ req = [p \in tasks |-> NoRequest]
    /\ ret = [p \in tasks |-> NoResponse]
    /\ loc = [p \in tasks |-> NoLocals]

\* atomic.Bool.CompareAndSwap(old, new) on a flag holding v, and a variant
\* that always swaps
CompareAndSwapAlways(v, old, new) == [ok |-> TRUE, v |-> new]
CompareAndSwap(v, old, new) ==
    IF v = old THEN [ok |-> TRUE, v |-> new] ELSE [ok |-> FALSE, v |-> v]

StartPcs == {"start.Lock", "start.Bind", "start.IsRunning", "start.IsNeedRestartCore",
             "start.ExtractUsersFromConfig", "start.core.Start",
             "start.Unlock", "start.Store"}

\* pushes in progress that can still create an instance
PendingStarts ==
    Cardinality({q \in Tasks : pc[q] \in StartPcs \ {"start.Unlock", "start.Store"}})

\* handleStart, part_014:94-104: the compare-and-swap guard
HandleStartCompareAndSwap(p) ==
    /\ pc[p] = "idle"
    /\ Len(insts) + PendingStarts < MaxInstances
    /\ LET cas == CompareAndSwap(isProcessing, FALSE, TRUE)
       IN  /\ isProcessing' = cas.v
           /\ IF cas.ok
              THEN /\ \E r \in StartRequests :
                          req' = [req EXCEPT ![p] = [op |-> "handleStart"] @@ r]
                   /\ pc' = [pc EXCEPT ![p] = "start.Lock"]
                   /\ ret' = [ret EXCEPT ![p] = NoResponse]
              ELSE /\ req' = req
                   /\ pc' = pc
                   /\ ret' = [ret EXCEPT ![p] = [status |-> 409, isStarted |-> FALSE]]
    /\ UNCHANGED <<cmVars, call, coreVars, engineVars, startMu, loc>>

\* part_014:106
HandleStartLock(p) ==
    /\ pc[p] = "start.Lock"
    /\ startMu = ""
    /\ startMu' = p
    /\ pc' = [pc EXCEPT ![p] = "start.Bind"]
    /\ UNCHANGED <<cmVars, call, coreVars, engineVars, isProcessing, req, ret, loc>>

\* part_014:109-122
HandleStartBind(p) ==
    /\ pc[p] = "start.Bind"
    /\ IF req[p].body = "malformed"
       THEN /\ ret' = [ret EXCEPT ![p] = [status |-> 400, isStarted |-> FALSE]]
            /\ pc' = [pc EXCEPT ![p] = "start.Unlock"]
       ELSE /\ ret' = ret
            /\ pc' = [pc EXCEPT ![p] = "start.IsRunning"]
    /\ UNCHANGED <<cmVars, call, coreVars, engineVars, ctlVars, req, loc>>

\* a test that looks at c.core.IsRunning() only
HandleStartIsRunningOnly(p) ==
    /\ pc[p] = "start.IsRunning"
    /\ coreMu = ""
    /\ pc' = [pc EXCEPT ![p] = IF running
                                THEN "start.IsNeedRestartCore"
                                ELSE "start.ExtractUsersFromConfig"]
    /\ UNCHANGED <<cmVars, call, coreVars, engineVars, ctlVars, req, ret, loc>>
\* part_014:124: c.core.IsRunning() && !forceRestart
HandleStartIsRunning(p) ==
    /\ pc[p] = "start.IsRunning"
    /\ coreMu = ""
    /\ pc' = [pc EXCEPT ![p] = IF running /\ ~req[p].forceRestart
                                THEN "start.IsNeedRestartCore"
                                ELSE "start.ExtractUsersFromConfig"]
    /\ UNCHANGED <<cmVars, call, coreVars, engineVars, ctlVars, req, ret, loc>>

\* part_014:125-138; a variant that goes on to restart whatever the decision
HandleStartAlwaysRestart(p) ==
    /\ pc[p] = "start.IsNeedRestartCore"
    /\ pc' = [pc EXCEPT ![p] = "start.ExtractUsersFromConfig"]
    /\ UNCHANGED <<cmVars, call, coreVars, engineVars, ctlVars, req, ret, loc>>
HandleStartIsNeedRestartCore(p) ==
    /\ pc[p] = "start.IsNeedRestartCore"
    /\ IF IsNeedRestartCore(req[p].hashes)
       THEN /\ ret' = ret
            /\ pc' = [pc EXCEPT ![p] = "start.ExtractUsersFromConfig"]
       ELSE /\ ret' = [ret EXCEPT ![p] = [status |-> 200, isStarted |-> TRUE]]
            /\ pc' = [pc EXCEPT ![p] = "start.Unlock"]
    /\ UNCHANGED <<cmVars, call, coreVars, engineVars, ctlVars, req, loc>>

\* part_014:140-151
HandleStartExtractUsersFromConfig(p) ==
    /\ pc[p] = "start.ExtractUsersFromConfig"
    /\ ExtractUsersFromConfig(req[p].hashes, generateAPIConfig(req[p].xrayConfig))
    /\ pc' = [pc EXCEPT ![p] = "start.core.Start"]
    /\ UNCHANGED <<call, coreVars, engineVars, ctlVars, req, ret, loc>>

\* part_014:153-186
HandleStartCoreStart(p) ==
    /\ pc[p] = "start.core.Start"
    /\ coreMu = ""
    /\ \E o \in CloseOutcomes, start \in StartOutcomes :
           LET r == Start(CoreState, generateAPIConfig(req[p].xrayConfig), o, start)
           IN  /\ SetCore(r.st)
               /\ ret' = [ret EXCEPT ![p] =
                             IF r.err = "nil"
                             THEN [status |-> 200, isStarted |-> TRUE]
                             ELSE [status |-> 500, isStarted |-> FALSE, error |-> r.err]]
    /\ pc' = [pc EXCEPT ![p] = "start.Unlock"]
    /\ UNCHANGED <<cmVars, call, coreMu, ctlVars, req, loc>>

\* the deferred c.startMu.Unlock(), part_014:107
HandleStartUnlock(p) ==
    /\ pc[p] = "start.Unlock"
    /\ startMu' = ""
    /\ pc' = [pc EXCEPT ![p] = "start.Store"]
    /\ UNCHANGED <<cmVars, call, coreVars, engineVars, isProcessing, req, ret, loc>>

\* a return that leaves the flag as it is
HandleStartStoreNothing(p) ==
    /\ pc[p] = "start.Store"
    /\ pc' = [pc EXCEPT ![p] = "idle"]
    /\ req' = [req EXCEPT ![p] = NoRequest]
    /\ UNCHANGED <<cmVars, call, coreVars, engineVars, ctlVars, ret, loc>>
\* the deferred c.isProcessing.Store(false), part_014:104
HandleStartStore(p) ==
    /\ pc[p] = "start.Store"
    /\ isProcessing' = FALSE
    /\ pc' = [pc EXCEPT ![p] = "idle"]
    /\ req' = [req EXCEPT ![p] = NoRequest]
    /\ UNCHANGED <<cmVars, call, coreVars, engineVars, startMu, ret, loc>>

\* handleStop, part_014:190
HandleStopLock(p) ==
    /\ pc[p] = "idle"
    /\ startMu = ""
    /\ startMu' = p
    /\ req' = [req EXCEPT ![p] = [op |-> "handleStop"]]
    /\ ret' = [ret EXCEPT ![p] = NoResponse]
    /\ pc' = [pc EXCEPT ![p] = "stop.core.Stop"]
    /\ UNCHANGED <<cmVars, call, coreVars, engineVars, isProcessing, loc>>

\* part_014:193-199; a variant that cleans the mirror up whatever Stop returns
HandleStopAlwaysCleanup(p) ==
    /\ pc[p] = "stop.core.Stop"
    /\ coreMu = ""
    /\ \E o \in CloseOutcomes : SetCore(Stop(CoreState, o).st)
    /\ pc' = [pc EXCEPT ![p] = "stop.Cleanup"]
    /\ UNCHANGED <<cmVars, call, coreMu, ctlVars, req, ret, loc>>
HandleStopCoreStop(p) ==
    /\ pc[p] = "stop.core.Stop"
    /\ coreMu = ""
    /\ \E o \in CloseOutcomes :
           LET r == Stop(CoreState, o)
           IN  /\ SetCore(r.st)
               /\ IF r.err = "nil"
                  THEN /\ ret' = ret
                       /\ pc' = [pc EXCEPT ![p] = "stop.Cleanup"]
                  ELSE /\ ret' = [ret EXCEPT ![p] = [status |-> 500, isStopped |-> FALSE]]
                       /\ pc' = [pc EXCEPT ![p] = "stop.Unlock"]
    /\ UNCHANGED <<cmVars, call, coreMu, ctlVars, req, loc>>

\* part_014:201-207
HandleStopCleanup(p) ==
    /\ pc[p] = "stop.Cleanup"
    /\ Cleanup
    /\ ret' = [ret EXCEPT ![p] = [status |-> 200, isStopped |-> TRUE]]
    /\ pc' = [pc EXCEPT ![p] = "stop.Unlock"]
    /\ UNCHANGED <<call, coreVars, engineVars, ctlVars, req, loc>>

\* the deferred c.startMu.Unlock(), part_014:191
HandleStopUnlock(p) ==
    /\ pc[p] = "stop.Unlock"
    /\ startMu' = ""
    /\ pc' = [pc EXCEPT ![p] = "idle"]
    /\ req' = [req EXCEPT ![p] = NoRequest]
    /\ UNCHANGED <<cmVars, call, coreVars, engineVars, isProcessing, ret, loc>>

\* getUserManager, part_013:124-141: a new UserManager on the inbound manager
\* of the instance the handle stores now; 0 when there is none
getUserManager == instance

\* GetXtlsConfigInbounds as the slice the handlers range over, part_006:284-293:
\* the tracked tags in the order the map iteration gave them
TagSlices(tags) ==
    {s \in [1..Cardinality(tags) -> tags] : {s[k] : k \in DOMAIN s} = tags}

\* part_013:184-187
HashToRemove(r) == IF r.prevVlessUuid = EmptyId THEN r.vlessUuid ELSE r.prevVlessUuid

\* the user data handleAddUser builds from an entry, part_013:195-198 (the
\* requests carry no passwords)
UserDataOf(entry) ==
    [userId |-> entry.username, vlessUuid |-> entry.uuid,
     trojanPassword |-> "", ssPassword |-> ""]

\* the requests as the handlers see them, and their answers; ret[p] is the
\* last answer task p was given, none while a request is in progress
AddUserRequest(r) == [op |-> "handleAddUser"] @@ r
RemoveUserRequest(r) == [op |-> "handleRemoveUser"] @@ r

\* the answer of part_013:145-153, 254-262, 359-367 and 404-412 to a body that
\* does not bind
InvalidRequestBody(r) ==
    [status |-> 400, success |-> FALSE, error |-> "invalid request body",
     request |-> r]
\* the answers of part_013:155-173 and 366-378 to request r, which end the
\* request
NoInboundData(r) ==
    [status |-> 400, success |-> FALSE, error |-> "no inbound data provided",
     request |-> r]
CoreNotAvailable(r) ==
    [status |-> 503, success |-> FALSE, error |-> "xray core not available",
     request |-> r]
\* the answers of part_013:225-229, 243-246 and 396-399
FailedToAddUser(r) ==
    [status |-> 500, success |-> FALSE, error |-> "failed to add user", request |-> r]
Success(r) == [status |-> 200, success |-> TRUE, request |-> r]

\* the handler returns with the answer
Answer(p, answer) ==
    /\ ret' = [ret EXCEPT ![p] = answer]
    /\ pc' = [pc EXCEPT ![p] = "idle"]
    /\ req' = [req EXCEPT ![p] = NoRequest]
    /\ loc' = [loc EXCEPT ![p] = NoLocals]

\* a handler that answers success when the handle stores no instance
HandleAddUserWithoutInstance(p) ==
    /\ pc[p] = "idle"
    /\ \E r \in AddUserRequestsOf(p) :
           IF r.body = "malformed"
           THEN /\ ret' = [ret EXCEPT ![p] = InvalidRequestBody(AddUserRequest(r))]
                /\ UNCHANGED <<pc, req, loc>>
           ELSE IF Len(r.data) = 0
           THEN /\ ret' = [ret EXCEPT ![p] = NoInboundData(AddUserRequest(r))]
                /\ UNCHANGED <<pc, req, loc>>
           ELSE /\ coreMu = ""
                /\ IF getUserManager = 0
                   THEN /\ ret' = [ret EXCEPT ![p] = Success(AddUserRequest(r))]
                        /\ UNCHANGED <<pc, req, loc>>
                   ELSE /\ req' = [req EXCEPT ![p] = AddUserRequest(r)]
                        /\ ret' = [ret EXCEPT ![p] = NoResponse]
                        /\ loc' = [loc EXCEPT ![p] = [NoLocals EXCEPT !.um = getUserManager]]
                        /\ pc' = [pc EXCEPT ![p] = "add.GetXtlsConfigInbounds"]
    /\ UNCHANGED <<cmVars, call, coreVars, engineVars, ctlVars>>
\* handleAddUser, part_013:144-173: a body that does not bind and a request
\* without inbound data are answered 400 before the engine is looked at, a
\* request that finds no instance 503
HandleAddUserGetUserManager(p) ==
    /\ pc[p] = "idle"
    /\ \E r \in AddUserRequestsOf(p) :
           IF r.body = "malformed"
           THEN /\ ret' = [ret EXCEPT ![p] = InvalidRequestBody(AddUserRequest(r))]
                /\ UNCHANGED <<pc, req, loc>>
           ELSE IF Len(r.data) = 0
           THEN /\ ret' = [ret EXCEPT ![p] = NoInboundData(AddUserRequest(r))]
                /\ UNCHANGED <<pc, req, loc>>
           ELSE /\ coreMu = ""
                /\ IF getUserManager = 0
                   THEN /\ ret' = [ret EXCEPT ![p] = CoreNotAvailable(AddUserRequest(r))]
                        /\ UNCHANGED <<pc, req, loc>>
                   ELSE /\ req' = [req EXCEPT ![p] = AddUserRequest(r)]
                        /\ ret' = [ret EXCEPT ![p] = NoResponse]
                        /\ loc' = [loc EXCEPT ![p] = [NoLocals EXCEPT !.um = getUserManager]]
                        /\ pc' = [pc EXCEPT ![p] = "add.GetXtlsConfigInbounds"]
    /\ UNCHANGED <<cmVars, call, coreVars, engineVars, ctlVars>>

\* part_013:175-178: the user to sweep is the one of the first entry
HandleAddUserGetXtlsConfigInbounds(p) ==
    /\ pc[p] = "add.GetXtlsConfigInbounds"
    /\ \E allTags \in TagSlices(GetXtlsConfigInbounds) :
           loc' = [loc EXCEPT ![p].allTags = allTags, ![p].t = 1]
    /\ pc' = [pc EXCEPT ![p] = "add.RemoveUserFromAllInbounds"]
    /\ UNCHANGED <<cmVars, call, coreVars, engineVars, ctlVars, req, ret>>

\* part_013:179-187 with users.go:166-177: one RemoveUser of the sweep, for the
\* next tag of the snapshot, its error dropped; after the last tag (or at once,
\* for an empty snapshot) the request goes on to the mirror or to its entries
HandleAddUserRemoveUserFromAllInbounds(p) ==
    /\ pc[p] = "add.RemoveUserFromAllInbounds"
    /\ insts' = IF loc[p].t <= Len(loc[p].allTags)
                THEN RemoveUser(insts, loc[p].um, loc[p].allTags[loc[p].t],
                                req[p].data[1].username).insts
                ELSE insts
    /\ IF loc[p].t < Len(loc[p].allTags)
       THEN /\ loc' = [loc EXCEPT ![p].t = @ + 1]
            /\ pc' = pc
       ELSE IF HashToRemove(req[p]) # EmptyId /\ Len(loc[p].allTags) > 0
       THEN /\ loc' = [loc EXCEPT ![p].t = 1]
            /\ pc' = [pc EXCEPT ![p] = "add.RemoveUserFromInbound"]
       ELSE /\ loc' = [loc EXCEPT ![p].t = 0, ![p].i = 1]
            /\ pc' = [pc EXCEPT ![p] = "add.AddUser"]
    /\ UNCHANGED <<cmVars, call, coreVars, ctlVars, req, ret>>

\* part_013:188-192: one RemoveUserFromInbound per snapshotted tag
HandleAddUserRemoveUserFromInbound(p) ==
    /\ pc[p] = "add.RemoveUserFromInbound"
    /\ RemoveUserFromInbound(loc[p].allTags[loc[p].t], HashToRemove(req[p]))
    /\ IF loc[p].t < Len(loc[p].allTags)
       THEN /\ loc' = [loc EXCEPT ![p].t = @ + 1]
            /\ pc' = pc
       ELSE /\ loc' = [loc EXCEPT ![p].t = 0, ![p].i = 1]
            /\ pc' = [pc EXCEPT ![p] = "add.AddUser"]
    /\ UNCHANGED <<call, coreVars, engineVars, ctlVars, req, ret>>

\* one turn of the loop of part_013:194-234: the user is built from the entry;
\* an unsupported type is skipped, a failing AddUser ends the request; after
\* the last entry the request goes on to the mirror (236) or is answered
HandleAddUserAddUser(p) ==
    /\ pc[p] = "add.AddUser"
    /\ LET entry == req[p].data[loc[p].i]
           user == BuildUserForInbound(entry, UserDataOf(entry))
           r == IF user = NilUser THEN [insts |-> insts, err |-> "nil"]
                ELSE AddUser(insts, loc[p].um, entry.tag, user)
       IN  /\ insts' = r.insts
           /\ IF r.err # "nil"
              THEN Answer(p, FailedToAddUser(req[p]))
              ELSE IF loc[p].i < Len(req[p].data)
              THEN /\ loc' = [loc EXCEPT ![p].i = @ + 1]
                   /\ UNCHANGED <<pc, req, ret>>
              ELSE IF req[p].vlessUuid # EmptyId
              THEN /\ loc' = [loc EXCEPT ![p].i = 1]
                   /\ pc' = [pc EXCEPT ![p] = "add.AddUserToInbound"]
                   /\ UNCHANGED <<req, ret>>
              ELSE Answer(p, Success(req[p]))
    /\ UNCHANGED <<cmVars, call, coreVars, ctlVars>>

\* part_013:236-249: one AddUserToInbound per entry of the request
HandleAddUserAddUserToInbound(p) ==
    /\ pc[p] = "add.AddUserToInbound"
    /\ AddUserToInbound(req[p].data[loc[p].i].tag, req[p].vlessUuid)
    /\ IF loc[p].i = Len(req[p].data)
       THEN Answer(p, Success(req[p]))
       ELSE /\ loc' = [loc EXCEPT ![p].i = @ + 1]
            /\ UNCHANGED <<pc, req, ret>>
    /\ UNCHANGED <<call, coreVars, engineVars, ctlVars>>

\* handleRemoveUser, part_013:357-378
HandleRemoveUserGetUserManager(p) ==
    /\ pc[p] = "idle"
    /\ \E r \in RemoveUserRequestsOf(p) :
           IF r.body = "malformed"
           THEN /\ ret' = [ret EXCEPT ![p] = InvalidRequestBody(RemoveUserRequest(r))]
                /\ UNCHANGED <<pc, req, loc>>
           ELSE /\ coreMu = ""
                /\ IF getUserManager = 0
                   THEN /\ ret' = [ret EXCEPT ![p] = CoreNotAvailable(RemoveUserRequest(r))]
                        /\ UNCHANGED <<pc, req, loc>>
                   ELSE /\ req' = [req EXCEPT ![p] = RemoveUserRequest(r)]
                        /\ ret' = [ret EXCEPT ![p] = NoResponse]
                        /\ loc' = [loc EXCEPT ![p] =
                                      [NoLocals EXCEPT
                                          !.um = getUserManager,
                                          !.again = ret[p] = Success(RemoveUserRequest(r))]]
                        /\ pc' = [pc EXCEPT ![p] = "remove.GetXtlsConfigInbounds"]
    /\ UNCHANGED <<cmVars, call, coreVars, engineVars, ctlVars>>

\* part_013:382
HandleRemoveUserGetXtlsConfigInbounds(p) ==
    /\ pc[p] = "remove.GetXtlsConfigInbounds"
    /\ \E allTags \in TagSlices(GetXtlsConfigInbounds) :
           loc' = [loc EXCEPT ![p].allTags = allTags, ![p].t = 1]
    /\ pc' = [pc EXCEPT ![p] = "remove.RemoveUserFromAllInbounds"]
    /\ UNCHANGED <<cmVars, call, coreVars, engineVars, ctlVars, req, ret>>

\* a handler that leaves the engine alone
HandleRemoveUserSkipsEngine(p) ==
    /\ pc[p] = "remove.RemoveUserFromAllInbounds"
    /\ insts' = insts
    /\ IF loc[p].t < Len(loc[p].allTags)
       THEN /\ loc' = [loc EXCEPT ![p].t = @ + 1]
            /\ UNCHANGED <<pc, req, ret>>
       ELSE IF req[p].vlessUuid # EmptyId /\ Len(loc[p].allTags) > 0
       THEN /\ loc' = [loc EXCEPT ![p].t = 1]
            /\ pc' = [pc EXCEPT ![p] = "remove.RemoveUserFromInbound"]
            /\ UNCHANGED <<req, ret>>
       ELSE Answer(p, Success(req[p]))
    /\ UNCHANGED <<cmVars, call, coreVars, ctlVars>>
\* part_013:383-386 with users.go:166-177: one RemoveUser of the sweep; after
\* the last tag the request goes on to the mirror or, with nothing to remove
\* there, is answered (394-399)
HandleRemoveUserRemoveUserFromAllInbounds(p) ==
    /\ pc[p] = "remove.RemoveUserFromAllInbounds"
    /\ insts' = IF loc[p].t <= Len(loc[p].allTags)
                THEN RemoveUser(insts, loc[p].um, loc[p].allTags[loc[p].t],
                                req[p].username).insts
                ELSE insts
    /\ IF loc[p].t < Len(loc[p].allTags)
       THEN /\ loc' = [loc EXCEPT ![p].t = @ + 1]
            /\ UNCHANGED <<pc, req, ret>>
       ELSE IF req[p].vlessUuid # EmptyId /\ Len(loc[p].allTags) > 0
       THEN /\ loc' = [loc EXCEPT ![p].t = 1]
            /\ pc' = [pc EXCEPT ![p] = "remove.RemoveUserFromInbound"]
            /\ UNCHANGED <<req, ret>>
       ELSE Answer(p, Success(req[p]))
    /\ UNCHANGED <<cmVars, call, coreVars, ctlVars>>

\* part_013:388-399: one RemoveUserFromInbound per snapshotted tag
HandleRemoveUserRemoveUserFromInbound(p) ==
    /\ pc[p] = "remove.RemoveUserFromInbound"
    /\ RemoveUserFromInbound(loc[p].allTags[loc[p].t], req[p].vlessUuid)
    /\ IF loc[p].t < Len(loc[p].allTags)
       THEN /\ loc' = [loc EXCEPT ![p].t = @ + 1]
            /\ UNCHANGED <<pc, req, ret>>
       ELSE Answer(p, Success(req[p]))
    /\ UNCHANGED <<call, coreVars, engineVars, ctlVars>>

\* handleAddUsers, part_013:251-347
Vless(t) == [tag |-> t, type |-> "vless"]
BulkUser(userId, hashUuid, vlessUuid, inboundData) ==
    [userId |-> userId, hashUuid |-> hashUuid, vlessUuid |-> vlessUuid,
     trojanPassword |-> "", ssPassword |-> "", inboundData |-> inboundData]
AddUsersRequests ==
    {[body |-> "ok", affectedInboundTags |-> <<>>,
      users |-> <<BulkUser("bob", U2, GoodUuid, <<Vless("t1")>>),
                  BulkUser("alice", U1, GoodUuid, <<Vless("t1")>>)>>],
     [body |-> "ok", affectedInboundTags |-> <<"t1", "t2">>,
      users |-> <<BulkUser("bob", U2, GoodUuid,
                           <<[tag |-> "t1", type |-> "http"], Vless("t1")>>)>>],
     [body |-> "ok", affectedInboundTags |-> <<>>,
      users |-> <<BulkUser("bob", U2, BadUuid, <<Vless("t1")>>)>>],
     [body |-> "ok", affectedInboundTags |-> <<>>, users |-> <<>>],
     Malformed}
AddUsersRequest(r) == [op |-> "handleAddUsers"] @@ r

\* the user entry and the inbound entry the request is working on
UserEntry(p) == req[p].users[loc[p].u]
InboundEntry(p) == UserEntry(p).inboundData[loc[p].i]

\* where the loops of part_013:290 and 305 go after inbound entry i of the
\* current user: the next inbound entry, the next user, or the end
AfterInboundEntry(p, i) ==
    IF i < Len(UserEntry(p).inboundData)
    THEN [pc |-> "addUsers.AddUser", u |-> loc[p].u, i |-> i + 1, t |-> 0]
    ELSE IF loc[p].u < Len(req[p].users)
    THEN [pc |-> "addUsers.RemoveUserFromAllInbounds", u |-> loc[p].u + 1, i |-> 0,
          t |-> 1]
    ELSE [pc |-> "idle", u |-> 0, i |-> 0, t |-> 0]

\* the request goes on as AfterInboundEntry says; at the end it is answered
\* success, part_013:349-354
HandleAddUsersGoOn(p, i) ==
    LET next == AfterInboundEntry(p, i)
    IN  IF next.pc = "idle"
        THEN Answer(p, Success(req[p]))
        ELSE /\ ret' = ret
             /\ pc' = [pc EXCEPT ![p] = next.pc]
             /\ req' = req
             /\ loc' = [loc EXCEPT ![p].u = next.u, ![p].i = next.i, ![p].t = next.t]

\* part_013:252-281
HandleAddUsersGetUserManager(p) ==
    /\ pc[p] = "idle"
    /\ \E r \in AddUsersRequests :
           IF r.body = "malformed"
           THEN /\ ret' = [ret EXCEPT ![p] = InvalidRequestBody(AddUsersRequest(r))]
                /\ UNCHANGED <<pc, req, loc>>
           ELSE IF Len(r.users) = 0
           THEN /\ ret' = [ret EXCEPT ![p] = Success(AddUsersRequest(r))]
                /\ UNCHANGED <<pc, req, loc>>
           ELSE /\ coreMu = ""
                /\ IF getUserManager = 0
                   THEN /\ ret' = [ret EXCEPT ![p] = CoreNotAvailable(AddUsersRequest(r))]
                        /\ UNCHANGED <<pc, req, loc>>
                   ELSE /\ req' = [req EXCEPT ![p] = AddUsersRequest(r)]
                        /\ ret' = [ret EXCEPT ![p] = NoResponse]
                        /\ loc' = [loc EXCEPT ![p] = [NoLocals EXCEPT !.um = getUserManager]]
                        /\ pc' = [pc EXCEPT ![p] = "addUsers.allTags"]
    /\ UNCHANGED <<cmVars, call, coreVars, engineVars, ctlVars>>

\* part_013:285-288
HandleAddUsersAllTags(p) ==
    /\ pc[p] = "addUsers.allTags"
    /\ \E allTags \in IF Len(req[p].affectedInboundTags) = 0
                      THEN TagSlices(GetXtlsConfigInbounds)
                      ELSE {req[p].affectedInboundTags} :
           loc' = [loc EXCEPT ![p].allTags = allTags, ![p].u = 1, ![p].t = 1]
    /\ pc' = [pc EXCEPT ![p] = "addUsers.RemoveUserFromAllInbounds"]
    /\ UNCHANGED <<cmVars, call, coreVars, engineVars, ctlVars, req, ret>>

\* part_013:294-297 with users.go:166-177: one RemoveUser of the sweep for the
\* current user
HandleAddUsersRemoveUserFromAllInbounds(p) ==
    /\ pc[p] = "addUsers.RemoveUserFromAllInbounds"
    /\ insts' = IF loc[p].t <= Len(loc[p].allTags)
                THEN RemoveUser(insts, loc[p].um, loc[p].allTags[loc[p].t],
                                UserEntry(p).userId).insts
                ELSE insts
    /\ IF loc[p].t < Len(loc[p].allTags)
       THEN /\ loc' = [loc EXCEPT ![p].t = @ + 1]
            /\ UNCHANGED <<pc, req, ret>>
       ELSE IF UserEntry(p).hashUuid # EmptyId /\ Len(loc[p].allTags) > 0
       THEN /\ loc' = [loc EXCEPT ![p].t = 1]
            /\ pc' = [pc EXCEPT ![p] = "addUsers.RemoveUserFromInbound"]
            /\ UNCHANGED <<req, ret>>
       ELSE HandleAddUsersGoOn(p, 0)
    /\ UNCHANGED <<cmVars, call, coreVars, ctlVars>>

\* part_013:299-303: one RemoveUserFromInbound per tag
HandleAddUsersRemoveUserFromInbound(p) ==
    /\ pc[p] = "addUsers.RemoveUserFromInbound"
    /\ RemoveUserFromInbound(loc[p].allTags[loc[p].t], UserEntry(p).hashUuid)
    /\ IF loc[p].t < Len(loc[p].allTags)
       THEN /\ loc' = [loc EXCEPT ![p].t = @ + 1]
            /\ UNCHANGED <<pc, req, ret>>
       ELSE HandleAddUsersGoOn(p, 0)
    /\ UNCHANGED <<call, coreVars, engineVars, ctlVars>>

\* part_013:305-341: an unsupported type is skipped, a failing AddUser ends
\* the request
HandleAddUsersAddUser(p) ==
    /\ pc[p] = "addUsers.AddUser"
    /\ LET user == BuildUserForInbound(InboundEntry(p), UserEntry(p))
       IN  IF user = NilUser
           THEN /\ insts' = insts
                /\ HandleAddUsersGoOn(p, loc[p].i)
           ELSE LET r == AddUser(insts, loc[p].um, InboundEntry(p).tag, user)
                IN  /\ insts' = r.insts
                    /\ IF r.err # "nil"
                       THEN Answer(p, FailedToAddUser(req[p]))
                       ELSE IF UserEntry(p).hashUuid # EmptyId
                       THEN /\ pc' = [pc EXCEPT ![p] = "addUsers.AddUserToInbound"]
                            /\ UNCHANGED <<req, ret, loc>>
                       ELSE HandleAddUsersGoOn(p, loc[p].i)
    /\ UNCHANGED <<cmVars, call, coreVars, ctlVars>>

\* part_013:343-345
HandleAddUsersAddUserToInbound(p) ==
    /\ pc[p] = "addUsers.AddUserToInbound"
    /\ AddUserToInbound(InboundEntry(p).tag, UserEntry(p).hashUuid)
    /\ HandleAddUsersGoOn(p, loc[p].i)
    /\ UNCHANGED <<call, coreVars, engineVars, ctlVars>>

\* handleRemoveUsers, part_013:402-455
RemoveUsersRequests ==
    {[body |-> "ok", users |-> <<[userId |-> "alice", hashUuid |-> U1],
                                 [userId |-> "bob", hashUuid |-> U2]>>],
     [body |-> "ok", users |-> <<[userId |-> "bob", hashUuid |-> EmptyId]>>],
     [body |-> "ok", users |-> <<>>],
     Malformed}
RemoveUsersRequest(r) == [op |-> "handleRemoveUsers"] @@ r

\* where the loop of part_013:436 goes after the current user: the next user
\* or the answer of 449-454
HandleRemoveUsersGoOn(p) ==
    IF loc[p].u < Len(req[p].users)
    THEN /\ loc' = [loc EXCEPT ![p].u = @ + 1, ![p].t = 1]
         /\ pc' = [pc EXCEPT ![p] = "removeUsers.RemoveUserFromAllInbounds"]
         /\ UNCHANGED <<req, ret>>
    ELSE Answer(p, Success(req[p]))

\* part_013:403-431: an empty list is answered success before the engine is
\* looked at
HandleRemoveUsersGetUserManager(p) ==
    /\ pc[p] = "idle"
    /\ \E r \in RemoveUsersRequests :
           IF r.body = "malformed"
           THEN /\ ret' = [ret EXCEPT ![p] = InvalidRequestBody(RemoveUsersRequest(r))]
                /\ UNCHANGED <<pc, req, loc>>
           ELSE IF Len(r.users) = 0
           THEN /\ ret' = [ret EXCEPT ![p] = Success(RemoveUsersRequest(r))]
                /\ UNCHANGED <<pc, req, loc>>
           ELSE /\ coreMu = ""
                /\ IF getUserManager = 0
                   THEN /\ ret' = [ret EXCEPT ![p] =
                                      CoreNotAvailable(RemoveUsersRequest(r))]
                        /\ UNCHANGED <<pc, req, loc>>
                   ELSE /\ req' = [req EXCEPT ![p] = RemoveUsersRequest(r)]
                        /\ ret' = [ret EXCEPT ![p] = NoResponse]
                        /\ loc' = [loc EXCEPT ![p] = [NoLocals EXCEPT !.um = getUserManager]]
                        /\ pc' = [pc EXCEPT ![p] = "removeUsers.GetXtlsConfigInbounds"]
    /\ UNCHANGED <<cmVars, call, coreVars, engineVars, ctlVars>>

\* part_013:434
HandleRemoveUsersGetXtlsConfigInbounds(p) ==
    /\ pc[p] = "removeUsers.GetXtlsConfigInbounds"
    /\ \E allTags \in TagSlices(GetXtlsConfigInbounds) :
           loc' = [loc EXCEPT ![p].allTags = allTags, ![p].u = 1, ![p].t = 1]
    /\ pc' = [pc EXCEPT ![p] = "removeUsers.RemoveUserFromAllInbounds"]
    /\ UNCHANGED <<cmVars, call, coreVars, engineVars, ctlVars, req, ret>>

\* part_013:437-440 with users.go:166-177: one RemoveUser of the sweep for the
\* current user
HandleRemoveUsersRemoveUserFromAllInbounds(p) ==
    /\ pc[p] = "removeUsers.RemoveUserFromAllInbounds"
    /\ insts' = IF loc[p].t <= Len(loc[p].allTags)
                THEN RemoveUser(insts, loc[p].um, loc[p].allTags[loc[p].t],
                                UserEntry(p).userId).insts
                ELSE insts
    /\ IF loc[p].t < Len(loc[p].allTags)
       THEN /\ loc' = [loc EXCEPT ![p].t = @ + 1]
            /\ UNCHANGED <<pc, req, ret>>
       ELSE IF UserEntry(p).hashUuid # EmptyId /\ Len(loc[p].allTags) > 0
       THEN /\ loc' = [loc EXCEPT ![p].t = 1]
            /\ pc' = [pc EXCEPT ![p] = "removeUsers.RemoveUserFromInbound"]
            /\ UNCHANGED <<req, ret>>
       ELSE HandleRemoveUsersGoOn(p)
    /\ UNCHANGED <<cmVars, call, coreVars, ctlVars>>

\* part_013:442-446: one RemoveUserFromInbound per tag
HandleRemoveUsersRemoveUserFromInbound(p) ==
    /\ pc[p] = "removeUsers.RemoveUserFromInbound"
    /\ RemoveUserFromInbound(loc[p].allTags[loc[p].t], UserEntry(p).hashUuid)
    /\ IF loc[p].t < Len(loc[p].allTags)
       THEN /\ loc' = [loc EXCEPT ![p].t = @ + 1]
            /\ UNCHANGED <<pc, req, ret>>
       ELSE HandleRemoveUsersGoOn(p)
    /\ UNCHANGED <<call, coreVars, engineVars, ctlVars>>

(* Concurrent configuration pushes and stops *)

InitPushes == InitControllers(PushTasks)

NextPushes ==
    \E p \in PushTasks :
        \/ HandleStartCompareAndSwap(p)
        \/ HandleStartLock(p)
        \/ HandleStartBind(p)
        \/ HandleStartIsRunning(p)
        \/ HandleStartIsNeedRestartCore(p)
        \/ HandleStartExtractUsersFromConfig(p)
        \/ HandleStartCoreStart(p)
        \/ HandleStartUnlock(p)
        \/ HandleStartStore(p)
        \/ HandleStopLock(p)
        \/ HandleStopCoreStop(p)
        \/ HandleStopCleanup(p)
        \/ HandleStopUnlock(p)

SpecPushes == InitPushes /\ [][NextPushes]_vars

(* The same requests under the scheduling the runtime gives a handler: a       *)
(* goroutine that can take its next step eventually takes it, and a goroutine  *)
(* waiting in startMu.Lock() is not overtaken for ever (sync.Mutex hands the   *)
(* lock to a starved waiter).  Nothing obliges a client to send a request.     *)

HandlerContinues(p) ==
    \/ HandleStartBind(p)
    \/ HandleStartIsRunning(p)
    \/ HandleStartIsNeedRestartCore(p)
    \/ HandleStartCoreStart(p)
    \/ HandleStartUnlock(p)
    \/ HandleStartStore(p)
    \/ HandleStopCoreStop(p)
    \/ HandleStopCleanup(p)
    \/ HandleStopUnlock(p)

\* weak fairness of HandleStartExtractUsersFromConfig(p), which is enabled
\* exactly while p is at that statement and takes p past it
ExtractContinues(p) == []<>(pc[p] # "start.ExtractUsersFromConfig")

SpecPushesFair ==
    /\ InitPushes /\ [][NextPushes]_vars
    /\ \A p \in PushTasks :
           /\ WF_vars(HandlerContinues(p))
           /\ ExtractContinues(p)
           /\ SF_vars(HandleStartLock(p))

(* User requests concurrent with configuration pushes and stops *)

InitUsers == InitControllers({"s1", "u1"})

NextUsers ==
    \/ \E p \in {"s1"} :
        \/ HandleStartCompareAndSwap(p)
        \/ HandleStartLock(p)
        \/ HandleStartBind(p)
        \/ HandleStartIsRunning(p)
        \/ HandleStartIsNeedRestartCore(p)
        \/ HandleStartExtractUsersFromConfig(p)
        \/ HandleStartCoreStart(p)
        \/ HandleStartUnlock(p)
        \/ HandleStartStore(p)
        \/ HandleStopLock(p)
        \/ HandleStopCoreStop(p)
        \/ HandleStopCleanup(p)
        \/ HandleStopUnlock(p)
    \/ \E p \in {"u1"} :
        \/ HandleAddUserGetUserManager(p)
        \/ HandleAddUserGetXtlsConfigInbounds(p)
        \/ HandleAddUserRemoveUserFromAllInbounds(p)
        \/ HandleAddUserRemoveUserFromInbound(p)
        \/ HandleAddUserAddUser(p)
        \/ HandleAddUserAddUserToInbound(p)
        \/ HandleRemoveUserGetUserManager(p)
        \/ HandleRemoveUserGetXtlsConfigInbounds(p)
        \/ HandleRemoveUserRemoveUserFromAllInbounds(p)
        \/ HandleRemoveUserRemoveUserFromInbound(p)

SpecUsers == InitUsers /\ [][NextUsers]_vars

(* User requests one after the other on a node that configuration pushes and    *)
(* stops have set up: no push or stop runs once the first user request has     *)
(* arrived                                                                     *)

NextUsersSerial ==
    \/ \E p \in {"s1"} :
        /\ pc["u1"] = "idle" /\ ret["u1"] = NoResponse
        /\ \/ HandleStartCompareAndSwap(p)
           \/ HandleStartLock(p)
           \/ HandleStartBind(p)
           \/ HandleStartIsRunning(p)
           \/ HandleStartIsNeedRestartCore(p)
           \/ HandleStartExtractUsersFromConfig(p)
           \/ HandleStartCoreStart(p)
           \/ HandleStartUnlock(p)
           \/ HandleStartStore(p)
           \/ HandleStopLock(p)
           \/ HandleStopCoreStop(p)
           \/ HandleStopCleanup(p)
           \/ HandleStopUnlock(p)
    \/ \E p \in {"u1"} :
        /\ pc["s1"] = "idle"
        /\ \/ HandleAddUserGetUserManager(p)
           \/ HandleAddUserGetXtlsConfigInbounds(p)
           \/ HandleAddUserRemoveUserFromAllInbounds(p)
           \/ HandleAddUserRemoveUserFromInbound(p)
           \/ HandleAddUserAddUser(p)
           \/ HandleAddUserAddUserToInbound(p)
           \/ HandleRemoveUserGetUserManager(p)
           \/ HandleRemoveUserGetXtlsConfigInbounds(p)
           \/ HandleRemoveUserRemoveUserFromAllInbounds(p)
           \/ HandleRemoveUserRemoveUserFromInbound(p)
           \/ HandleAddUsersGetUserManager(p)
           \/ HandleAddUsersAllTags(p)
           \/ HandleAddUsersRemoveUserFromAllInbounds(p)
           \/ HandleAddUsersRemoveUserFromInbound(p)
           \/ HandleAddUsersAddUser(p)
           \/ HandleAddUsersAddUserToInbound(p)
           \/ HandleRemoveUsersGetUserManager(p)
           \/ HandleRemoveUsersGetXtlsConfigInbounds(p)
           \/ HandleRemoveUsersRemoveUserFromAllInbounds(p)
           \/ HandleRemoveUsersRemoveUserFromInbound(p)

SpecUsersSerial == InitUsers /\ [][NextUsersSerial]_vars

(* Requests about the one user of an inbound, one after the other, on a node    *)
(* that configuration pushes and stops have set up                             *)

InitUserAlone == InitControllers({"s1", "u2"})

NextUserAlone ==
    \/ \E p \in {"s1"} :
        /\ pc["u2"] = "idle" /\ ret["u2"] = NoResponse
        /\ \/ HandleStartCompareAndSwap(p)
           \/ HandleStartLock(p)
           \/ HandleStartBind(p)
           \/ HandleStartIsRunning(p)
           \/ HandleStartIsNeedRestartCore(p)
           \/ HandleStartExtractUsersFromConfig(p)
           \/ HandleStartCoreStart(p)
           \/ HandleStartUnlock(p)
           \/ HandleStartStore(p)
           \/ HandleStopLock(p)
           \/ HandleStopCoreStop(p)
           \/ HandleStopCleanup(p)
           \/ HandleStopUnlock(p)
    \/ \E p \in {"u2"} :
        /\ pc["s1"] = "idle"
        /\ \/ HandleAddUserGetUserManager(p)
           \/ HandleAddUserGetXtlsConfigInbounds(p)
           \/ HandleAddUserRemoveUserFromAllInbounds(p)
           \/ HandleAddUserRemoveUserFromInbound(p)
           \/ HandleAddUserAddUser(p)
           \/ HandleAddUserAddUserToInbound(p)
           \/ HandleRemoveUserGetUserManager(p)
           \/ HandleRemoveUserGetXtlsConfigInbounds(p)
           \/ HandleRemoveUserRemoveUserFromAllInbounds(p)
           \/ HandleRemoveUserRemoveUserFromInbound(p)

SpecUserAlone == InitUserAlone /\ [][NextUserAlone]_vars

-----------------------------------------------------------------------------
(* The locks of the request handlers: each request as the sequence of Lock and *)
(* Unlock statements its handler and the methods it calls execute, for every   *)
(* path through the handler.  The locks are startMu, Core.mu ("core"),         *)
(* ConfigManager.mu ("cm") and the mu of the UserManager that the request       *)
(* created ("um").                                                             *)

Stmt(do, mu) == [do |-> do, mu |-> mu]
RECURSIVE Repeat(_, _)
Repeat(stmts, n) == IF n = 0 THEN <<>> ELSE stmts \o Repeat(stmts, n - 1)

\* IsRunning and Instance, core.go:104-118; Start and Stop, core.go:50-52, 82-84
CoreRead == <<Stmt("RLock", "core"), Stmt("RUnlock", "core")>>
CoreWrite == <<Stmt("Lock", "core"), Stmt("Unlock", "core")>>
\* IsNeedRestartCore and GetXtlsConfigInbounds, part_006:98-100, 284-286;
\* ExtractUsersFromConfig, AddUserToInbound, RemoveUserFromInbound and Cleanup,
\* part_006:165-166, 241-242, 261-262, 308-309
MirrorRead == <<Stmt("RLock", "cm"), Stmt("RUnlock", "cm")>>
MirrorWrite == <<Stmt("Lock", "cm"), Stmt("Unlock", "cm")>>
\* AddUser and RemoveUser, users.go:59-61, 116-118
UserWrite == <<Stmt("Lock", "um"), Stmt("Unlock", "um")>>
\* RemoveUserFromAllInbounds over n tags, users.go:166-177: it takes no lock of
\* its own; a variant that holds m.mu around its loop
RemoveUserFromAllInboundsLocked(n) ==
    <<Stmt("Lock", "um")>> \o Repeat(UserWrite, n) \o <<Stmt("Unlock", "um")>>
RemoveUserFromAllInboundsLocks(n) == Repeat(UserWrite, n)

\* handleStart after its guard, part_014:106-186: a malformed body, the no-op,
\* the restart after IsNeedRestartCore and the restart without it
HandleStartLocks ==
    {<<Stmt("Lock", "start"), Stmt("Unlock", "start")>>,
     <<Stmt("Lock", "start")>> \o CoreRead \o MirrorRead \o <<Stmt("Unlock", "start")>>,
     <<Stmt("Lock", "start")>> \o CoreRead \o MirrorRead \o MirrorWrite \o CoreWrite
         \o <<Stmt("Unlock", "start")>>,
     <<Stmt("Lock", "start")>> \o CoreRead \o MirrorWrite \o CoreWrite
         \o <<Stmt("Unlock", "start")>>}
\* handleStop, part_014:189-208: Stop fails, or Stop and Cleanup
HandleStopLocks ==
    {<<Stmt("Lock", "start")>> \o CoreWrite \o <<Stmt("Unlock", "start")>>,
     <<Stmt("Lock", "start")>> \o CoreWrite \o MirrorWrite \o <<Stmt("Unlock", "start")>>}
\* handleStatus, part_014:210-222
HandleStatusLocks == {CoreRead}
\* handleAddUser, part_013:144-240: a body that fails validation takes no lock
\* and a request that finds no instance reads the handle only; else the sweep
\* over the n tracked tags, the n mirror removals of a request that carries
\* an id to remove, one AddUser for each of the first j entries of a
\* supported type, and, when none of them failed and the request carries a
\* VLESS id, a mirror addition for each of the k entries (j <= k, the entries
\* of an unsupported type being skipped by the engine loop only)
MaxEntries == 2
HandleAddUserLocks ==
    {<<>>, CoreRead}
      \cup {CoreRead \o MirrorRead \o RemoveUserFromAllInboundsLocks(n)
                \o Repeat(MirrorWrite, r) \o Repeat(UserWrite, j)
                \o Repeat(MirrorWrite, k) :
              <<n, r, j, k>> \in
                  {x \in (0..Cardinality(Tags)) \X (0..Cardinality(Tags))
                            \X (0..MaxEntries) \X (0..MaxEntries) :
                       /\ x[2] \in {0, x[1]}
                       /\ x[4] = 0 \/ (x[4] >= 1 /\ x[4] >= x[3])}}
\* handleRemoveUser, part_013:358-392: the sweep, and the mirror removals of a
\* request that carries an id
HandleRemoveUserLocks ==
    {<<>>, CoreRead}
      \cup {CoreRead \o MirrorRead \o RemoveUserFromAllInboundsLocks(n)
                \o Repeat(MirrorWrite, r) :
              <<n, r>> \in {x \in (0..Cardinality(Tags)) \X (0..Cardinality(Tags)) :
                               x[2] \in {0, x[1]}}}
\* the sequences of A followed by those of B, and u sequences of A in a row
Cat(A, B) == {a \o b : a \in A, b \in B}
RECURSIVE Power(_, _)
Power(A, u) == IF u = 0 THEN {<<>>} ELSE Cat(A, Power(A, u - 1))
MaxUsers == 2
\* handleRemoveUsers, part_013:403-446: a body that does not bind and an empty
\* list take no lock, a request that finds no instance reads the handle only;
\* else the snapshot of the n tracked tags (434) and, for each of the u users
\* in turn (436), the sweep and the mirror removals of a user with an id
HandleRemoveUsersLocks ==
    {<<>>, CoreRead}
      \cup UNION {Cat({CoreRead \o MirrorRead},
                      Power({RemoveUserFromAllInboundsLocks(n) \o Repeat(MirrorWrite, r) :
                                r \in {0, n}}, u)) :
                    <<n, u>> \in (0..Cardinality(Tags)) \X (1..MaxUsers)}
\* one user of handleAddUsers over n tags, part_013:290-346: the sweep, the
\* mirror removals of a user with an id (h), and one AddUser for each of the j
\* entries of a supported type, each followed by its mirror addition when the
\* user has an id; in AddUsersFailing the user's last AddUser fails (330-341)
AddUsersSweep(n, h) ==
    RemoveUserFromAllInboundsLocks(n) \o Repeat(MirrorWrite, IF h THEN n ELSE 0)
AddUsersAdded(h, j) ==
    Repeat(UserWrite \o (IF h THEN MirrorWrite ELSE <<>>), j)
AddUsersUser(n) ==
    {AddUsersSweep(n, h) \o AddUsersAdded(h, j) : h \in BOOLEAN, j \in 0..MaxEntries}
AddUsersFailing(n) ==
    {AddUsersSweep(n, h) \o AddUsersAdded(h, j - 1) \o UserWrite :
        h \in BOOLEAN, j \in 1..MaxEntries}
\* handleAddUsers, part_013:253-346: the tags are the request's
\* affectedInboundTags or, when it names none, the snapshot of the tracked
\* tags, which takes the mirror's read lock (285-288); the users are handled
\* in turn (290) until the last one or until an AddUser fails; a request
\* names at most as many tags as there are inbound tags
HandleAddUsersLocks ==
    {<<>>, CoreRead}
      \cup UNION {Cat(IF n = 0 THEN {CoreRead \o MirrorRead}
                      ELSE {CoreRead \o MirrorRead, CoreRead},
                      Cat(Power(AddUsersUser(n), u - 1),
                          AddUsersUser(n) \cup AddUsersFailing(n))) :
                    <<n, u>> \in (0..Cardinality(Tags)) \X (1..MaxUsers)}

\* the requests of each client
LockTasks == {"s1", "s2", "u1"}
HandlersOf(p) ==
    IF p = "u1" THEN {"handleAddUser", "handleRemoveUser", "handleAddUsers",
                      "handleRemoveUsers", "handleStatus"}
    ELSE {"handleStart", "handleStop"}
HandlerLocks(op) ==
    CASE op = "handleStart" -> HandleStartLocks
      [] op = "handleStop" -> HandleStopLocks
      [] op = "handleStatus" -> HandleStatusLocks
      [] op = "handleAddUser" -> HandleAddUserLocks
      [] op = "handleRemoveUser" -> HandleRemoveUserLocks
      [] op = "handleAddUsers" -> HandleAddUsersLocks
      [] op = "handleRemoveUsers" -> HandleRemoveUsersLocks

NoLockLocals == [i |-> 0, mu |-> FALSE]

\* a handler's return, and what a handler that has executed the statements
\* done can come to next on one of its paths: a statement or its return
Return == Stmt("return", "")
Continuations(op, done) ==
    {IF Len(stmts) = Len(done) THEN Return ELSE stmts[Len(done) + 1] :
        stmts \in {x \in HandlerLocks(op) :
                     Len(x) >= Len(done) /\ SubSeq(x, 1, Len(done)) = done}}

InitLocks ==
    /\ InitConfigManager
    /\ instance = 0 /\ running = FALSE /\ insts = <<>>
    /\ coreMu = Unlocked
    /\ InitController
    /\ call = [op |-> "NewXrayController"]
    /\ pc = [p \in LockTasks |-> "idle"]
    /\ req = [p \in LockTasks |-> NoRequest]
    /\ ret = [p \in LockTasks |-> NoResponse]
    /\ loc = [p \in LockTasks |-> NoLockLocals]

\* a request arrives and comes to its first statement; a push goes through
\* the compare-and-swap guard first
LockArrive(p) ==
    /\ pc[p] = "idle"
    /\ \E op \in HandlersOf(p) : \E next \in Continuations(op, <<>>) :
           LET cas == IF op = "handleStart"
                      THEN CompareAndSwap(isProcessing, FALSE, TRUE)
                      ELSE [ok |-> TRUE, v |-> isProcessing]
           IN  /\ isProcessing' = cas.v
               /\ IF cas.ok
                  THEN /\ req' = [req EXCEPT ![p] =
                                      [op |-> op, done |-> <<>>, next |-> next]]
                       /\ loc' = [loc EXCEPT ![p] = [i |-> 1, mu |-> FALSE]]
                       /\ pc' = [pc EXCEPT ![p] = "run"]
                       /\ ret' = [ret EXCEPT ![p] = NoResponse]
                  ELSE /\ ret' = [ret EXCEPT ![p] = [status |-> 409, isStarted |-> FALSE]]
                       /\ UNCHANGED <<req, loc, pc>>
    /\ UNCHANGED <<emptyConfigHash, inboundsHashMap, xtlsConfigInbounds, xrayConfig,
                   cmMu, call, coreVars, engineVars, startMu>>

\* the statement the task is at, and the lock it names
StmtOf(p) == req[p].next
AtStmt(p) == pc[p] = "run" /\ req[p].next # Return
\* sync.Mutex and sync.RWMutex: whether the statement can execute now; a Lock
\* of a mutex the caller itself holds waits like any other
CanExecute(p) ==
    LET st == StmtOf(p)
    IN  CASE st.do \in {"Unlock", "RUnlock"} -> TRUE
          [] st.do = "RLock" -> RLockable(IF st.mu = "core" THEN coreMu ELSE cmMu)
          [] st.do = "Lock" ->
                CASE st.mu = "start" -> startMu = ""
                  [] st.mu = "um" -> ~loc[p].mu
                  [] st.mu = "core" -> Lockable(coreMu)
                  [] st.mu = "cm" -> Lockable(cmMu)
RWAfter(mu, p, do) ==
    CASE do = "Lock" -> [mu EXCEPT !.writer = p]
      [] do = "Unlock" -> [mu EXCEPT !.writer = ""]
      [] do = "RLock" -> [mu EXCEPT !.readers = @ \cup {p}]
      [] do = "RUnlock" -> [mu EXCEPT !.readers = @ \ {p}]

\* the task executes the Lock or Unlock statement it is at and comes to the
\* next statement of its path, or to its return
LockStep(p) ==
    /\ AtStmt(p)
    /\ CanExecute(p)
    /\ LET st == StmtOf(p)
       IN  /\ startMu' = IF st.mu = "start" THEN (IF st.do = "Lock" THEN p ELSE "") ELSE startMu
           /\ coreMu' = IF st.mu = "core" THEN RWAfter(coreMu, p, st.do) ELSE coreMu
           /\ cmMu' = IF st.mu = "cm" THEN RWAfter(cmMu, p, st.do) ELSE cmMu
           /\ loc' = [loc EXCEPT ![p].i = @ + 1,
                                 ![p].mu = IF st.mu = "um" THEN st.do = "Lock" ELSE @]
           /\ \E next \in Continuations(req[p].op, Append(req[p].done, st)) :
                  req' = [req EXCEPT ![p].done = Append(@, st), ![p].next = next]
    /\ UNCHANGED <<emptyConfigHash, inboundsHashMap, xtlsConfigInbounds, xrayConfig,
                   call, instance, running, engineVars, isProcessing, pc, ret>>

\* the handler returns; handleStart's deferred Store(false) clears the flag
LockReturn(p) ==
    /\ pc[p] = "run" /\ req[p].next = Return
    /\ isProcessing' = IF req[p].op = "handleStart" THEN FALSE ELSE isProcessing
    /\ ret' = [ret EXCEPT ![p] = [status |-> 200]]
    /\ pc' = [pc EXCEPT ![p] = "idle"]
    /\ req' = [req EXCEPT ![p] = NoRequest]
    /\ loc' = [loc EXCEPT ![p] = NoLockLocals]
    /\ UNCHANGED <<cmVars, call, coreVars, engineVars, startMu>>

NextLocks ==
    \E p \in LockTasks :
        \/ LockArrive(p)
        \/ LockStep(p)
        \/ LockReturn(p)

SpecLocks == InitLocks /\ [][NextLocks]_vars

\* the locks a task holds, and the tasks a task waits for
HeldBy(p) ==
    {m \in {"start"} : startMu = p}
      \cup {m \in {"core"} : coreMu.writer = p \/ p \in coreMu.readers}
      \cup {m \in {"cm"} : cmMu.writer = p \/ p \in cmMu.readers}
      \cup {m \in {"um"} : loc[p].mu}
HoldersOf(p, m) ==
    CASE m = "start" -> {startMu} \ {""}
      [] m = "core" -> ({coreMu.writer} \ {""}) \cup coreMu.readers
      [] m = "cm" -> ({cmMu.writer} \ {""}) \cup cmMu.readers
      [] m = "um" -> {q \in {p} : loc[p].mu}
WaitsFor(p) ==
    IF AtStmt(p) /\ ~CanExecute(p) THEN HoldersOf(p, StmtOf(p).mu) ELSE {}
\* the tasks p waits for, directly or through others
RECURSIVE WaitsForAll(_, _)
WaitsForAll(ps, n) ==
    IF n = 0 THEN ps
    ELSE WaitsForAll(ps \cup UNION {WaitsFor(q) : q \in ps}, n - 1)

\* C39: no interleaving of pushes, stops, add-user and remove-user requests and
\* status queries reaches a deadlock: no task waits, directly or through other
\* tasks, for a lock it holds itself, and every task that waits, waits for a
\* task that does not.  The locks are taken in one order: a task that takes a
\* lock holds nothing, or holds startMu alone and takes Core.mu, the
\* ConfigManager's or a UserManager's lock; in particular a task calling
\* RemoveUser from RemoveUserFromAllInbounds does not hold the UserManager's
\* lock.
C39_NoDeadlock ==
    /\ [](\A p \in LockTasks :
             /\ p \notin WaitsForAll(WaitsFor(p), Cardinality(LockTasks))
             /\ WaitsFor(p) # {} =>
                    \E q \in WaitsForAll(WaitsFor(p), Cardinality(LockTasks)) :
                        AtStmt(q) /\ CanExecute(q))
    /\ [][\A p \in LockTasks :
             HeldBy(p)' \ HeldBy(p) # {} =>
                 /\ HeldBy(p) \subseteq {"start"}
                 /\ "start" \in HeldBy(p) => "start" \notin HeldBy(p)' \ HeldBy(p)]_vars

\* a push holds startMu and Core.mu inside Start while a stop waits for
\* startMu and a user request waits
\* for Core.mu
C39_Witness ==
    /\ startMu = "s1" /\ coreMu.writer = "s1" /\ req["s1"].op = "handleStart"
    /\ AtStmt("s2") /\ ~CanExecute("s2") /\ req["s2"].op = "handleStop"
    /\ AtStmt("u1") /\ ~CanExecute("u1") /\ StmtOf("u1").mu = "core"

-----------------------------------------------------------------------------
(* Claims about the controllers *)

Quiescent == \A p \in Tasks : pc[p] = "idle"

\* the ids the mirror lists for an inbound, and the ids of the users the
\* stored engine instance holds for it
MirrorMembers(tag) ==
    IF tag \in DOMAIN inboundsHashMap THEN inboundsHashMap[tag].items ELSE {}
EngineMembers(tag) ==
    IF tag \in DOMAIN insts[instance].users
    THEN {UuidOf[e] : e \in insts[instance].users[tag]}
    ELSE {}

Started == [status |-> 200, isStarted |-> TRUE]

\* C5: add-user and remove-user requests change the engine and the mirror
\* atomically with respect to a concurrent push: whenever no request is in
\* progress, the last push was answered isStarted = true and the engine runs
\* the configuration the mirror was rebuilt from, the mirror lists for every
\* inbound exactly the users the running instance holds.
C5_MirrorMatchesEngine ==
    (/\ Quiescent
     /\ \A p \in Tasks \cap PushTasks : ret[p] = Started
     /\ running /\ instance # 0
     /\ insts[instance].status = "started"
     /\ xrayConfig = <<insts[instance].cfg>>)
        => \A tag \in Tags \cup {"api"} : MirrorMembers(tag) = EngineMembers(tag)

PastGuard == {p \in Tasks : pc[p] \in StartPcs}
Rejected(p) == ret[p].status = 409

\* C6: at most one handleStart execution is past the compare-and-swap guard
\* and the flag is set while one is; a push that arrives meanwhile is answered
\* 409 in the step of its arrival: it does not wait, another push is past the
\* guard, and neither the engine, the handle, the mirror nor the start lock
\* changes.
C6_SingleFlight ==
    /\ [](Cardinality(PastGuard) <= 1 /\ (PastGuard # {} => isProcessing))
    /\ [][\A p \in Tasks :
              (ret'[p] # ret[p] /\ ret'[p].status = 409)
                  => /\ pc[p] = "idle" /\ pc'[p] = "idle"
                     /\ PastGuard \ {p} # {}
                     /\ UNCHANGED <<cmVars, coreVars, engineVars, ctlVars>>]_vars

\* one push is about to restart the engine, the other one was rejected
C6_Witness ==
    \E p, q \in Tasks :
        /\ p # q
        /\ pc[p] = "start.core.Start" /\ running
        /\ pc[q] = "idle" /\ Rejected(q)

\* C7: ExtractUsersFromConfig is invoked only after the engine has started
\* with the configuration: whenever the mirror holds a configuration, some
\* engine instance has been started successfully with it.
C7_RebuildOnlyAfterStart ==
    xrayConfig # <<>>
        => \E i \in 1..Len(insts) : insts[i].ran /\ insts[i].cfg = xrayConfig[1]

\* C14: a push that finds the engine running, carries forceRestart = false
\* and for which IsNeedRestartCore(hashes) is false is a no-op: from the
\* IsRunning test to its return it changes neither the handle and the engine
\* instances (nothing is stopped or replaced) nor the mirror, and it answers
\* 200 with isStarted = true.
C14_NoOpPush ==
    /\ [](\A p \in Tasks : pc[p] = "start.IsNeedRestartCore"
                                => (running /\ ~req[p].forceRestart))
    /\ [][\A p \in Tasks :
             /\ (pc[p] = "start.IsRunning" /\ pc'[p] # pc[p]
                    /\ running /\ ~req[p].forceRestart)
                  => /\ pc'[p] = "start.IsNeedRestartCore"
                     /\ UNCHANGED <<cmVars, coreVars, engineVars>>
             /\ (pc[p] = "start.IsNeedRestartCore" /\ pc'[p] # pc[p]
                    /\ ~IsNeedRestartCore(req[p].hashes))
                  => /\ pc'[p] = "start.Unlock"
                     /\ ret'[p] = Started
                     /\ UNCHANGED <<cmVars, coreVars, engineVars>>
             /\ (pc[p] \in {"start.Unlock", "start.Store"} /\ pc'[p] # pc[p])
                  => UNCHANGED <<cmVars, coreVars, engineVars, ret>>]_vars

\* the other task's push started the only instance there is, and this push has
\* answered isStarted = true without starting one
C14_Witness ==
    \E p, q \in Tasks :
        /\ p # q
        /\ pc[p] = "start.Unlock" /\ ret[p] = Started
        /\ pc[q] = "idle" /\ ret[q] = Started
        /\ Len(insts) = 1 /\ insts[1].status = "started" /\ instance = 1
        /\ xrayConfig = <<insts[1].cfg>>

\* a user request arrives at task p in this step
Received(p) == pc[p] = "idle" /\ (pc'[p] # "idle" \/ ret'[p] # ret[p])
Mirror == <<emptyConfigHash, inboundsHashMap, xtlsConfigInbounds, xrayConfig>>
\* the request the answer is for does not pass the validation of its body:
\* the body does not bind, or it is an add-user request without inbound data
WithoutData(answer) ==
    \/ answer.request.body = "malformed"
    \/ "data" \in DOMAIN answer.request /\ Len(answer.request.data) = 0

\* C26: an add-user or remove-user request that arrives while the engine is
\* not running is ended in the step of its arrival with success = false and an
\* error, and the mirror is left as it is: no fingerprint, tracked tag or
\* member is added or removed.  The answer is 503 service unavailable for
\* every request that passes the validation of its body; a body that does not
\* bind and an add-user request without inbound data do not pass it and are
\* answered 400.
C26_NotRunningRejected ==
    [][\A p \in Tasks \cap UserTasks :
          Received(p) /\ ~running =>
              /\ pc'[p] = "idle"
              /\ ret'[p].status = IF WithoutData(ret'[p]) THEN 400 ELSE 503
              /\ ~ret'[p].success /\ "error" \in DOMAIN ret'[p]
              /\ Mirror' = Mirror]_vars

\* an add-user request with inbound data was answered 503 while the engine
\* is not running and the mirror tracks an inbound
C26_Witness ==
    \E p \in Tasks \cap UserTasks :
        /\ ~running /\ pc[p] = "idle"
        /\ ret[p].status = 503
        /\ "data" \in DOMAIN ret[p].request /\ Len(ret[p].request.data) > 0
        /\ DOMAIN inboundsHashMap # {}

\* the configuration a push hands to the mirror and to the engine
Pushed(p) == generateAPIConfig(req[p].xrayConfig)
\* the push of task p is forced or finds the engine not running
Unconditional(p) == req[p].forceRestart \/ ~running

\* C27: a push with forceRestart = true, or one that arrives while the engine
\* is not running, takes the restart path whatever its hashes are: an engine
\* that is not running when the push is admitted is still not running at the
\* IsRunning test, the test sends the push to ExtractUsersFromConfig without
\* evaluating IsNeedRestartCore, the mirror is rebuilt from the pushed hashes
\* and configuration, and Core.Start is called with the pushed configuration:
\* when it returns nil the former instance is closed and a new instance runs
\* the pushed configuration, answered isStarted = true; when it returns an
\* error the answer is 500.
C27_UnconditionalRestart ==
    /\ [](\A p \in Tasks : pc[p] = "start.IsNeedRestartCore" => ~Unconditional(p))
    /\ [][\A p \in Tasks :
             /\ (pc[p] \in {"start.Lock", "start.Bind", "start.IsRunning"} /\ ~running)
                  => ~running'
             /\ (pc[p] = "start.IsRunning" /\ pc'[p] # pc[p] /\ Unconditional(p))
                  => /\ pc'[p] = "start.ExtractUsersFromConfig"
                     /\ UNCHANGED <<cmVars, coreVars, engineVars>>
             /\ (pc[p] = "start.ExtractUsersFromConfig" /\ pc'[p] # pc[p])
                  => /\ pc'[p] = "start.core.Start"
                     /\ emptyConfigHash' = req[p].hashes.EmptyConfig
                     /\ xrayConfig' = <<Pushed(p)>>
                     /\ UNCHANGED <<coreVars, engineVars>>
             /\ (pc[p] = "start.core.Start" /\ pc'[p] # pc[p])
                  => /\ pc'[p] = "start.Unlock"
                     /\ Len(insts') \in {Len(insts), Len(insts) + 1}
                     /\ \/ /\ ret'[p] = Started
                           /\ running' /\ instance' = Len(insts) + 1
                           /\ Len(insts') = Len(insts) + 1
                           /\ insts'[instance'].cfg = Pushed(p)
                           /\ insts'[instance'].status = "started"
                           /\ instance # 0 => insts'[instance].status = "closed"
                        \/ /\ ret'[p].status = 500
                           /\ ~ret'[p].isStarted
                     /\ UNCHANGED cmVars]_vars

\* a forced push was answered isStarted = true: it closed an instance that
\* ran the very configuration it pushed and started a new one with it
C27_Witness ==
    \E p \in Tasks :
        /\ pc[p] = "start.Unlock" /\ ret[p] = Started /\ req[p].forceRestart
        /\ running /\ instance = Len(insts) /\ instance >= 2
        /\ insts[instance].cfg = Pushed(p)
        /\ insts[instance - 1].cfg = Pushed(p)
        /\ insts[instance - 1].ran /\ insts[instance - 1].status = "closed"
        /\ xrayConfig = <<Pushed(p)>>

\* C28: removing the same user twice is safe.  A remove-user request that
\* repeats the request the task was last answered, that answer being a
\* success and no other request having run since, changes nothing: none of
\* its steps, its RemoveUserFromInbound(tag, id) calls included, which repeat
\* those of the first request, changes the mirror, the engine instances or
\* the handle, and it is answered success.
C28_RemoveTwiceIsSafe ==
    [][\A p \in Tasks \cap UserTasks :
          (loc[p].again \/ loc'[p].again) =>
              /\ Mirror' = Mirror
              /\ UNCHANGED <<coreVars, engineVars>>
              /\ pc'[p] = "idle" => ret'[p] = Success(req[p])]_vars

\* the second of two identical remove-user requests is calling
\* RemoveUserFromInbound; the first took the user, whom the running
\* configuration lists for the inbound, out of the engine and out of the
\* mirror, where another user is left
C28_Witness ==
    \E p \in Tasks \cap UserTasks :
        /\ loc[p].again /\ pc[p] = "remove.RemoveUserFromInbound"
        /\ loc[p].allTags[loc[p].t] = "t1"
        /\ instance # 0 /\ insts[instance].cfg = generateAPIConfig(CfgBoth)
        /\ req[p].username \notin insts[instance].users["t1"]
        /\ "t1" \in DOMAIN inboundsHashMap
        /\ inboundsHashMap["t1"].items = {U1}

\* the mirror of a node that never started the engine
NeverStarted == <<"", <<>>, {}, <<>>>>

\* C33 as stated: a push answered isStarted = true without a restart finds the
\* stored engine instance started from the configuration the mirror holds;
\* and a push whose engine start fails leaves the mirror as it was before the
\* push, so that on a node where no engine instance was ever created the
\* mirror is still the never-started one when such a push is answered.
C33_NoRestartOnlyWhenLive ==
    [][\A p \in Tasks \cap PushTasks :
          /\ (pc[p] = "start.IsNeedRestartCore" /\ pc'[p] = "start.Unlock") =>
                 /\ instance # 0 /\ xrayConfig # <<>>
                 /\ insts[instance].status = "started"
                 /\ insts[instance].cfg = xrayConfig[1]
          /\ (pc[p] = "start.core.Start" /\ ret'[p].status = 500 /\ insts' = <<>>) =>
                 Mirror' = NeverStarted]_vars

\* the steps of handleStart and of handleStop that run with startMu held
StartLockedPcs == StartPcs \ {"start.Lock", "start.Store"}
StopPcs == {"stop.core.Stop", "stop.Cleanup", "stop.Unlock"}

\* C37: a stop request and a configuration push never run their bodies at the
\* same time (both hold startMu from their first statement to their return).
\* When Stop returns nil the handle is not running and the request resets the
\* mirror to its never-started state, for which IsNeedRestartCore is true of
\* every push, and answers isStopped = true; when Stop fails the request
\* leaves the mirror as it is and answers 500 with isStopped = false.
C37_StopExclusiveAndResets ==
    /\ [](\A p, q \in Tasks :
             /\ ~(pc[p] \in StopPcs /\ pc[q] \in StartLockedPcs)
             /\ pc[p] \in StopPcs \cup StartLockedPcs => startMu = p
             /\ (pc[p] = "stop.Unlock" /\ ret[p].isStopped) =>
                    /\ Mirror = NeverStarted
                    /\ ~running
                    /\ \A r \in StartRequests :
                           r.body = "ok" => IsNeedRestartCore(r.hashes))
    /\ [][\A p \in Tasks :
             /\ (pc[p] = "stop.core.Stop" /\ pc'[p] # pc[p]) =>
                    /\ Mirror' = Mirror
                    /\ IF pc'[p] = "stop.Cleanup"
                       THEN ~running' /\ instance' = 0 /\ ret'[p] = ret[p]
                       ELSE /\ pc'[p] = "stop.Unlock"
                            /\ ret'[p] = [status |-> 500, isStopped |-> FALSE]
             /\ (pc[p] = "stop.Cleanup" /\ pc'[p] # pc[p]) =>
                    /\ Mirror' = NeverStarted
                    /\ ret'[p] = [status |-> 200, isStopped |-> TRUE]
             /\ (pc[p] = "stop.Unlock" /\ pc'[p] # pc[p]) =>
                    Mirror' = Mirror /\ ret'[p] = ret[p]]_vars

\* a stop request whose Stop failed is about to return isStopped = false with
\* the mirror of the last push intact and the handle still running, while a
\* push admitted meanwhile waits for startMu
C37_Witness ==
    \E p, q \in Tasks :
        /\ pc[p] = "stop.Unlock" /\ ret[p] = [status |-> 500, isStopped |-> FALSE]
        /\ xrayConfig # <<>> /\ emptyConfigHash = "h1" /\ running
        /\ pc[q] = "start.Lock"

\* C38: the single-flight flag is set only while a handleStart execution is
\* past the guard: the return of an execution, whatever it answered, clears
\* it, a push that arrives while none is past the guard is admitted and not
\* answered 409, and every admitted push eventually returns.
C38_FlagAlwaysReleased ==
    /\ [](PastGuard = {} => ~isProcessing)
    /\ [][\A p \in Tasks :
             /\ (pc[p] = "start.Store" /\ pc'[p] = "idle") => ~isProcessing'
             /\ (pc[p] = "idle" /\ PastGuard = {} /\ ret'[p] # ret[p]
                   /\ pc'[p] \notin StopPcs) =>
                    (pc'[p] = "start.Lock" /\ ~Rejected(p)')]_vars
    /\ \A p \in PushTasks : (pc[p] \in StartPcs) ~> (pc[p] = "idle")

\* a push whose engine start failed has returned, and a push that arrived
\* after it has been admitted
C38_Witness ==
    \E p, q \in Tasks :
        /\ pc[p] = "idle" /\ ret[p].status = 500 /\ ret[p].isStarted = FALSE
        /\ pc[q] = "start.Lock" /\ isProcessing

\* C32 as stated: once a remove-user request is answered success, the user is
\* in no inbound registry of the stored engine instance and the user's id is
\* a member of no set of the mirror.
C32_RemovedUserIsGone ==
    \A p \in Tasks \cap UserTasks :
        (pc[p] = "idle" /\ ret[p].status = 200
         /\ ret[p].request.op = "handleRemoveUser") =>
            /\ instance # 0 =>
                   \A t \in DOMAIN insts[instance].users :
                       ret[p].request.username \notin insts[instance].users[t]
            /\ \A t \in DOMAIN inboundsHashMap :
                   ret[p].request.vlessUuid \notin inboundsHashMap[t].items

\* two consecutive RemoveUserFromInbound(tag, id) calls on the ConfigManager:
\* the second leaves the mirror as the first left it
RemoveUserFromInboundTwice ==
    [][(call.op = "RemoveUserFromInbound" /\ call'.op = "RemoveUserFromInbound"
        /\ call'.tag = call.tag /\ call'.id = call.id) => Mirror' = Mirror]_vars

\* the user a request is about, the id it takes out of the mirror and the
\* inbound entry whose id it puts into the mirror
SweptUser(p) ==
    CASE req[p].op = "handleAddUser" -> req[p].data[1].username
      [] req[p].op = "handleRemoveUser" -> req[p].username
      [] OTHER -> UserEntry(p).userId
EntryOf(p) ==
    IF req[p].op = "handleAddUsers" THEN InboundEntry(p) ELSE req[p].data[loc[p].i]
\* the user the request builds for that entry, NilUser for an unsupported type
BuiltUser(p) ==
    BuildUserForInbound(EntryOf(p), IF req[p].op = "handleAddUsers" THEN UserEntry(p)
                                    ELSE UserDataOf(EntryOf(p)))
SnapshotTags(p) == {loc[p].allTags[k] : k \in DOMAIN loc[p].allTags}
EngineUsers(p, tag) ==
    IF tag \in DOMAIN insts[loc[p].um].users THEN insts[loc[p].um].users[tag] ELSE {}
MirrorRemovalPcs == {"add.RemoveUserFromInbound", "remove.RemoveUserFromInbound",
                     "addUsers.RemoveUserFromInbound",
                     "removeUsers.RemoveUserFromInbound"}
MirrorAdditionPcs == {"add.AddUserToInbound", "addUsers.AddUserToInbound"}
EnginePcs == {"add.RemoveUserFromAllInbounds", "remove.RemoveUserFromAllInbounds",
              "addUsers.RemoveUserFromAllInbounds",
              "removeUsers.RemoveUserFromAllInbounds", "add.AddUser",
              "addUsers.AddUser"}
\* everything of the engine instances but their users
Engines(instances) == [k \in DOMAIN instances |-> [instances[k] EXCEPT !.users = {}]]

\* C29: in every add-user, add-users, remove-user and remove-users request the engine is
\* mutated before the mirror: when the request takes the user's id out of the
\* mirror for its tags, the user has already been removed from those inbounds
\* of the engine, and when it puts the id into the mirror for an inbound
\* entry, the user has already been added to that inbound of the engine
\* (unless the entry's type is unsupported, for which handleAddUser adds
\* nothing to the engine).  The engine steps leave the mirror alone, the
\* mirror steps the users of the engine, and no step of a user request stops,
\* restarts or replaces an engine instance.
C29_EngineBeforeMirror ==
    /\ [](\A p \in Tasks \cap UserTasks :
            /\ pc[p] \in MirrorRemovalPcs =>
                  \A tag \in SnapshotTags(p) : SweptUser(p) \notin EngineUsers(p, tag)
            /\ pc[p] \in MirrorAdditionPcs /\ BuiltUser(p) # NilUser =>
                  BuiltUser(p).email \in EngineUsers(p, EntryOf(p).tag))
    /\ [][\A p \in Tasks \cap UserTasks :
             /\ pc[p] \in EnginePcs => Mirror' = Mirror
             /\ pc[p] \in MirrorRemovalPcs \cup MirrorAdditionPcs => insts' = insts
             /\ (pc[p] # "idle" \/ pc'[p] # "idle" \/ ret'[p] # ret[p]) =>
                   /\ UNCHANGED coreVars
                   /\ Engines(insts') = Engines(insts)]_vars

\* a request has added its user to the engine's inbound, where the running
\* configuration does not list them, and is about to put the user's id into
\* the mirror, which does not list it yet
C29_Witness ==
    \E p \in Tasks \cap UserTasks :
        /\ pc[p] \in MirrorAdditionPcs
        /\ running /\ instance = loc[p].um
        /\ insts[instance].cfg = generateAPIConfig(CfgAlice)
        /\ BuiltUser(p).email = "bob"
        /\ "bob" \in EngineUsers(p, EntryOf(p).tag)
        /\ EntryOf(p).tag \in DOMAIN inboundsHashMap
        /\ U2 \notin inboundsHashMap[EntryOf(p).tag].items

\* C35 as stated: a step of an add-user request puts the user's id into the
\* mirror under an inbound tag only if the request's entry for that tag is of
\* a supported type and its engine add was done, so that the instance the
\* request works on holds the user under the tag; no entry skipped for its
\* type, and no entry of a request that aborted on a failing engine add, puts
\* an id into the mirror.
C35_MirrorGainsOnlyAfterEngineAdd ==
    [][\A p \in Tasks \cap UserTasks :
          /\ (pc[p] \in MirrorAdditionPcs
               /\ \E t \in Tags : /\ t = EntryOf(p).tag
                                   /\ MirrorMembers(t)' # MirrorMembers(t)) =>
                  /\ BuiltUser(p) # NilUser
                  /\ BuiltUser(p).email \in EngineUsers(p, EntryOf(p).tag)
          /\ (pc[p] \in {"add.AddUser", "addUsers.AddUser"} /\ ret'[p].status = 500) =>
                  Mirror' = Mirror /\ pc'[p] = "idle"]_vars

-----------------------------------------------------------------------------
(* Concurrent user requests, one step per statement of the UserManager         *)
(* operation each of them runs (src/internal/xray/users.go:59-177) on the      *)
(* UserManager that getUserManager creates for it (part_013:124-141)           *)

UserOp(op, tags, emails, ids) ==
    [op |-> op, tags |-> tags, emails |-> emails, ids |-> ids]
UserOps ==
    {UserOp("AddUser", <<"t1">>, <<"bob">>, <<GoodUuid>>),
     UserOp("AddUser", <<"t2">>, <<"bob">>, <<GoodUuid>>),
     UserOp("AddUser", <<"t1">>, <<"bob">>, <<BadUuid>>),
     UserOp("RemoveUser", <<"t1">>, <<"alice">>, <<GoodUuid>>),
     UserOp("AddUsers", <<"t1">>, <<"bob", "alice", "carol">>,
            <<GoodUuid, GoodUuid, GoodUuid>>),
     UserOp("AddUsers", <<"t1">>, <<"carol", "bob">>, <<BadUuid, GoodUuid>>),
     UserOp("RemoveUsers", <<"t1">>, <<"bob", "alice">>, <<GoodUuid, GoodUuid>>),
     UserOp("RemoveUserFromAllInbounds", <<"t2", "t1">>, <<"alice">>, <<GoodUuid>>)}

\* the locals of a request: the instance its UserManager works on, whether
\* the mutex of that UserManager is held, the position in the list of tags
\* and in the list of users, and the history of the individual
\* userManager.AddUser / RemoveUser calls and failed lookups so far
NoUserManager == [um |-> 0, mu |-> FALSE, t |-> 0, i |-> 0, tried |-> <<>>]

\* the tag and the user the request is working on: the sweep
\* (users.go:166-177) walks the tags with one user, the others walk the users
\* of one tag
Sweeps(p) == req[p].op = "RemoveUserFromAllInbounds"
TagOf(p) == req[p].tags[loc[p].t]
EmailOf(p) == req[p].emails[loc[p].i]
\* the protocol.User an add operation was handed for that user
UserOf(p) == VlessUser(EmailOf(p), req[p].ids[loc[p].i])
Tried(p, err) == Append(loc[p].tried, [tag |-> TagOf(p), email |-> EmailOf(p), err |-> err])

InitUserManagers ==
    /\ InitConfigManager
    /\ InitCore
    /\ InitController
    /\ call = [op |-> "NewHandlerController"]
    /\ pc = [p \in UserTasks |-> "idle"]
    /\ req = [p \in UserTasks |-> NoRequest]
    /\ ret = [p \in UserTasks |-> ""]
    /\ loc = [p \in UserTasks |-> NoUserManager]

\* Core.Start as a whole, core.go:50-80, on a handle that stores no instance
EngineStart ==
    /\ instance = 0
    /\ Len(insts) < MaxInstances
    /\ coreMu = ""
    /\ \E o \in CloseOutcomes, start \in StartOutcomes :
           SetCore(Start(CoreState, generateAPIConfig(CfgAlice), o, start).st)
    /\ UNCHANGED <<cmVars, call, coreMu, ctlVars, taskVars>>

\* getUserManager, part_013:124-141: with no instance the request ends, else
\* it gets a UserManager of its own, created by NewUserManager (users.go:24-29)
UserManagerNew(p) ==
    /\ pc[p] = "idle"
    /\ coreMu = ""
    /\ IF getUserManager = 0
       THEN /\ ret' = [ret EXCEPT ![p] = "xray core not running"]
            /\ UNCHANGED <<pc, req, loc>>
       ELSE /\ \E r \in UserOps : req' = [req EXCEPT ![p] = r]
            /\ ret' = [ret EXCEPT ![p] = ""]
            /\ loc' = [loc EXCEPT ![p] = [NoUserManager EXCEPT !.um = getUserManager,
                                                              !.t = 1, !.i = 1]]
            /\ pc' = [pc EXCEPT ![p] = "m.mu.Lock"]
    /\ UNCHANGED <<cmVars, call, coreVars, engineVars, ctlVars>>

\* m.mu.Lock() on the request's UserManager, users.go:60, 88, 117, 139
UserManagerLock(p) ==
    /\ pc[p] = "m.mu.Lock"
    /\ ~loc[p].mu
    /\ loc' = [loc EXCEPT ![p].mu = TRUE]
    /\ pc' = [pc EXCEPT ![p] = "getProxyUserManager"]
    /\ UNCHANGED <<cmVars, call, coreVars, engineVars, ctlVars, req, ret>>

\* the registry lookup, users.go:63-66, 91-94, 120-123, 142-145: a failed
\* lookup is the operation's error, but for the sweep, which logs the error
\* of its RemoveUser and goes on (users.go:168-174)
UserManagerLookup(p) ==
    /\ pc[p] = "getProxyUserManager"
    /\ IF HasProxyUserManager(insts, loc[p].um, TagOf(p))
       THEN /\ loc' = loc
            /\ pc' = [pc EXCEPT ![p] = "userManager"]
            /\ ret' = ret
       ELSE /\ loc' = [loc EXCEPT ![p].tried =
                          IF Sweeps(p) THEN Tried(p, "no such inbound tag") ELSE @]
            /\ pc' = [pc EXCEPT ![p] = "m.mu.Unlock"]
            /\ ret' = [ret EXCEPT ![p] = IF Sweeps(p) THEN @ ELSE "no such inbound tag"]
    /\ UNCHANGED <<cmVars, call, coreVars, engineVars, ctlVars, req>>

\* a loop over the users that a failing RemoveUser ends
UserManagerMutateRemoveEnds(p) ==
    /\ pc[p] = "userManager"
    /\ LET r == IF req[p].op \in {"AddUser", "AddUsers"}
                THEN AddUser(insts, loc[p].um, TagOf(p), UserOf(p))
                ELSE RemoveUser(insts, loc[p].um, TagOf(p), EmailOf(p))
           failed == r.err # "nil" /\ ~Sweeps(p)
           last == loc[p].i = Len(req[p].emails)
       IN  /\ insts' = r.insts
           /\ ret' = [ret EXCEPT ![p] = IF failed THEN r.err
                                        ELSE IF last /\ ~Sweeps(p) THEN "nil" ELSE @]
           /\ loc' = [loc EXCEPT ![p].i = IF failed \/ last THEN @ ELSE @ + 1,
                                 ![p].tried = Tried(p, r.err)]
           /\ pc' = [pc EXCEPT ![p] = IF failed \/ last THEN "m.mu.Unlock" ELSE @]
    /\ UNCHANGED <<cmVars, call, coreVars, ctlVars, req>>
\* a loop over the users that goes on after a failing AddUser
UserManagerMutateNeverEnds(p) ==
    /\ pc[p] = "userManager"
    /\ LET r == IF req[p].op \in {"AddUser", "AddUsers"}
                THEN AddUser(insts, loc[p].um, TagOf(p), UserOf(p))
                ELSE RemoveUser(insts, loc[p].um, TagOf(p), EmailOf(p))
           failed == r.err # "nil" /\ req[p].op \in {"AddUser", "RemoveUser"}
           last == loc[p].i = Len(req[p].emails)
       IN  /\ insts' = r.insts
           /\ ret' = [ret EXCEPT ![p] = IF failed THEN r.err
                                        ELSE IF last /\ ~Sweeps(p) THEN "nil" ELSE @]
           /\ loc' = [loc EXCEPT ![p].i = IF failed \/ last THEN @ ELSE @ + 1,
                                 ![p].tried = Tried(p, r.err)]
           /\ pc' = [pc EXCEPT ![p] = IF failed \/ last THEN "m.mu.Unlock" ELSE @]
    /\ UNCHANGED <<cmVars, call, coreVars, ctlVars, req>>
\* one turn of the operation: ToMemoryUser and userManager.AddUser
\* (users.go:68-76, 96-105) or userManager.RemoveUser (users.go:125, 147-155).
\* A failing conversion or AddUser ends AddUsers (users.go:97-105), a failing
\* RemoveUser ends neither RemoveUsers (users.go:149-152) nor the sweep
UserManagerMutate(p) ==
    /\ pc[p] = "userManager"
    /\ LET r == IF req[p].op \in {"AddUser", "AddUsers"}
                THEN AddUser(insts, loc[p].um, TagOf(p), UserOf(p))
                ELSE RemoveUser(insts, loc[p].um, TagOf(p), EmailOf(p))
           failed == r.err # "nil" /\ req[p].op \in {"AddUser", "AddUsers", "RemoveUser"}
           last == loc[p].i = Len(req[p].emails)
       IN  /\ insts' = r.insts
           /\ ret' = [ret EXCEPT ![p] = IF failed THEN r.err
                                        ELSE IF last /\ ~Sweeps(p) THEN "nil" ELSE @]
           /\ loc' = [loc EXCEPT ![p].i = IF failed \/ last THEN @ ELSE @ + 1,
                                 ![p].tried = Tried(p, r.err)]
           /\ pc' = [pc EXCEPT ![p] = IF failed \/ last THEN "m.mu.Unlock" ELSE @]
    /\ UNCHANGED <<cmVars, call, coreVars, ctlVars, req>>

\* the deferred m.mu.Unlock(), users.go:61, 89, 118, 140; the sweep goes on
\* with its next tag and returns nil after the last one (users.go:167, 176)
UserManagerUnlock(p) ==
    /\ pc[p] = "m.mu.Unlock"
    /\ IF Sweeps(p) /\ loc[p].t < Len(req[p].tags)
       THEN /\ loc' = [loc EXCEPT ![p].mu = FALSE, ![p].t = @ + 1]
            /\ pc' = [pc EXCEPT ![p] = "m.mu.Lock"]
            /\ ret' = ret
       ELSE /\ loc' = [loc EXCEPT ![p].mu = FALSE]
            /\ pc' = [pc EXCEPT ![p] = "return"]
            /\ ret' = [ret EXCEPT ![p] = IF Sweeps(p) THEN "nil" ELSE @]
    /\ UNCHANGED <<cmVars, call, coreVars, engineVars, ctlVars, req>>

\* the return to the caller, which ends the request
UserManagerReturn(p) ==
    /\ pc[p] = "return"
    /\ loc' = [loc EXCEPT ![p] = NoUserManager]
    /\ req' = [req EXCEPT ![p] = NoRequest]
    /\ ret' = [ret EXCEPT ![p] = ""]
    /\ pc' = [pc EXCEPT ![p] = "idle"]
    /\ UNCHANGED <<cmVars, call, coreVars, engineVars, ctlVars>>

NextUserManagers ==
    \/ EngineStart
    \/ \E p \in UserTasks :
        \/ UserManagerNew(p)
        \/ UserManagerLock(p)
        \/ UserManagerLookup(p)
        \/ UserManagerMutate(p)
        \/ UserManagerUnlock(p)
        \/ UserManagerReturn(p)

SpecUserManagers == InitUserManagers /\ [][NextUserManagers]_vars

\* the operation of request p has run to its end
Finished(p, op) == pc[p] \in {"m.mu.Unlock", "return"} /\ req[p].op = op
\* the outcome of the last individual call of request p
LastTried(p) == loc[p].tried[Len(loc[p].tried)]
\* request p's step made one individual call, and it succeeded
TriedOne(p) ==
    /\ Len(loc'[p].tried) = Len(loc[p].tried) + 1
    /\ loc'[p].tried[Len(loc'[p].tried)].err = "nil"

\* C24: AddUsers applies the accounts one after the other in the order given
\* and stops at the first failing one: it returns that account's error, every
\* account before it was added to the inbound's registry by its own call, and
\* no account after it is attempted.  Without a failure every account is
\* applied and nil returned.
C24_AddUsersStopsAtFirstFailure ==
    /\ [](\A p \in Tasks :
            Finished(p, "AddUsers") /\ ret[p] # "no such inbound tag" =>
                LET n == Len(loc[p].tried) IN
                /\ n \in 1..Len(req[p].emails)
                /\ \A k \in 1..n : loc[p].tried[k].email = req[p].emails[k]
                /\ \A k \in 1..(n - 1) : loc[p].tried[k].err = "nil"
                /\ ret[p] = LastTried(p).err
                /\ LastTried(p).err = "nil" => n = Len(req[p].emails))
    /\ [][\A p \in Tasks :
            req[p].op = "AddUsers" /\ TriedOne(p) =>
                /\ EmailOf(p) \in insts'[loc[p].um].users[TagOf(p)]
                /\ EmailOf(p) \notin insts[loc[p].um].users[TagOf(p)]]_vars

\* an AddUsers of three accounts has returned the error of the second one:
\* the first was added, the third never attempted
C24_Witness ==
    \E p \in Tasks :
        /\ pc[p] = "return" /\ req[p].op = "AddUsers"
        /\ Len(req[p].emails) = 3 /\ Len(loc[p].tried) = 2
        /\ loc[p].tried[1].err = "nil"
        /\ ret[p] = "failed to add user"
        /\ req[p].emails[1] \in insts[loc[p].um].users[req[p].tags[1]]

\* C25: RemoveUsers and RemoveUserFromAllInbounds never abort early: whatever
\* the individual removals return, RemoveUsers on a known inbound attempts
\* every user id in order and the sweep attempts every tag in order, and both
\* return nil.
C25_RemovalsNeverAbort ==
    \A p \in Tasks :
        /\ Finished(p, "RemoveUsers") /\ ret[p] # "no such inbound tag" =>
              /\ Len(loc[p].tried) = Len(req[p].emails)
              /\ \A k \in 1..Len(req[p].emails) :
                     loc[p].tried[k].email = req[p].emails[k]
              /\ ret[p] = "nil"
        /\ pc[p] = "return" /\ Sweeps(p) =>
              /\ Len(loc[p].tried) = Len(req[p].tags)
              /\ \A k \in 1..Len(req[p].tags) :
                     /\ loc[p].tried[k].tag = req[p].tags[k]
                     /\ loc[p].tried[k].email = req[p].emails[1]
              /\ ret[p] = "nil"

\* a RemoveUsers whose first removal failed went on to remove its second
\* user, a sweep whose first tag is unknown went on to its second tag, and
\* both returned nil
C25_Witness ==
    \E p, q \in Tasks :
        /\ pc[p] = "return" /\ req[p].op = "RemoveUsers"
        /\ loc[p].tried[1].err = "failed to remove user"
        /\ loc[p].tried[2].err = "nil"
        /\ ret[p] = "nil"
        /\ pc[q] = "return" /\ Sweeps(q)
        /\ loc[q].tried[1].err = "no such inbound tag"
        /\ Len(loc[q].tried) = 2
        /\ ret[q] = "nil"

\* a request is between the Lock and the Unlock of its UserManager
InUserManager(p) == pc[p] \in {"getProxyUserManager", "userManager", "m.mu.Unlock"}

\* C8: two requests working on the same engine instance are never both
\* between the Lock and the Unlock of a UserManager operation, so their
\* registry lookups and mutations do not interleave.
C8_UserOperationsExclusive ==
    \A p, q \in Tasks :
        (p # q /\ InUserManager(p) /\ InUserManager(q)) => loc[p].um # loc[q].um
====
